---- MODULE Spec2Model ----
(***************************************************************************)
(* The partial DOM reconciliation engine of assets/main.js:                *)
(* theme.mergeNodes with its collaborators theme.hideAndRemove and         *)
(* theme.insertAndReveal.                                                  *)
(*                                                                         *)
(* The live container holds content-marked nodes ([data-merge]),           *)
(* attribute-marked nodes ([data-merge-attributes]) and lists              *)
(* ([data-merge-list]) of items ([data-merge-list-item]).  JavaScript is   *)
(* single threaded: one mergeNodes call is one atomic step, and every      *)
(* setTimeout callback is one atomic step that runs between calls.         *)
(***************************************************************************)
EXTENDS Integers, Sequences, FiniteSets, TLC

VARIABLES
  content,   \* live [data-merge] nodes: marker key -> [html, cache]
  attrs,     \* live [data-merge-attributes] nodes: marker key -> attribute map
  lists,     \* live [data-merge-list] containers: marker key -> sequence of children
  orphans,   \* timer callbacks still pending on nodes already detached from the document
  reloads,   \* number of window.location.reload() calls made
  frag,      \* newContent, the fragment handed to the latest mergeNodes call
  log,       \* the DOM writes of the latest mergeNodes call, in program order
  calls,     \* number of mergeNodes calls made
  style,     \* the custom properties --fade-duration and --slide-duration as computed
  throttleTimeoutId,  \* throttle: the timer the closure last set for fn, by due time
  tick,      \* throttle: the closure's flag, true while fn has just been called
  timeouts,  \* throttle: the timers set by the closure and not yet run or cleared
  now,       \* throttle: the time since throttle returned, in units of 100 ms
  triggered, \* throttle: the times at which fn has been called, in order
  classList, \* cart-form: the classes of the cart-form element
  inputs,    \* cart-form: the quantity input of each list item, by element id
  adjustItemQuantityTimeout, \* cart-form: the id of the timer adjustItemQuantity last set
  quantityTimers, \* cart-form: the timers set by adjustItemQuantity and not yet run or cleared
  requests,  \* cart-form: the bodies posted to the cart update route, in order
  events,    \* cart-form: the events dispatched, in order
  fetches    \* cart-form: the fetches in flight, by route

mergeVars == <<content, attrs, lists, orphans, reloads, frag, log, calls, style>>

throttleVars == <<throttleTimeoutId, tick, timeouts, now, triggered>>

cartVars == <<classList, inputs, adjustItemQuantityTimeout, quantityTimers, requests,
              events, fetches>>

vars == <<mergeVars, throttleVars, cartVars>>

\* A cart-form that has just been connected: nothing adjusted, nothing fetched.
CartIdle ==
  /\ classList = {}
  /\ inputs = <<>>
  /\ adjustItemQuantityTimeout = 0
  /\ quantityTimers = {}
  /\ requests = <<>>
  /\ events = <<>>
  /\ fetches = [update |-> 0, section |-> 0]

(***************************************************************************)
(* throttle(fn, wait), lines 1113-1129.  The returned closure owns         *)
(* throttleTimeoutId and tick.  A timer is the record of its callback and  *)
(* of the time it is due.                                                  *)
(***************************************************************************)
\* The time window, wait (300 ms by default), in units of 100 ms.
Wait == 3

\* Lines 1114-1115: the closure as throttle returns it, at time 0.
ThrottleIdle ==
  /\ throttleTimeoutId = -1
  /\ tick = FALSE
  /\ timeouts = {}
  /\ now = 0
  /\ triggered = <<>>

\* The closure is invoked up to time MaxTime - Wait, so that every timer it
\* sets is due by MaxTime.
MaxTime == 8

FnTimer(due) == [cb |-> "fn", due |-> due]

TickTimer(due) == [cb |-> "tick", due |-> due]

\* Line 1118: clearTimeout of a timer that has run, or of -1, does nothing.
ClearTimeout(pending, id) == pending \ {FnTimer(id)}

\* Lines 1117-1128: one invocation of the closure.
Invoke ==
  /\ now + Wait <= MaxTime
  /\ throttleTimeoutId' = now + Wait
  /\ IF ~tick
     THEN /\ triggered' = Append(triggered, now)
          /\ tick' = TRUE
          /\ timeouts' = ClearTimeout(timeouts, throttleTimeoutId)
                           \cup {FnTimer(now + Wait), TickTimer(now + Wait)}
     ELSE /\ timeouts' = ClearTimeout(timeouts, throttleTimeoutId) \cup {FnTimer(now + Wait)}
          /\ UNCHANGED <<tick, triggered>>
  /\ UNCHANGED <<now, mergeVars, cartVars>>

\* Line 1119: the timer set for fn runs when it is due.
RunFn ==
  /\ \E timer \in timeouts :
       /\ timer.cb = "fn"
       /\ timer.due <= now
       /\ timeouts' = timeouts \ {timer}
  /\ triggered' = Append(triggered, now)
  /\ UNCHANGED <<throttleTimeoutId, tick, now, mergeVars, cartVars>>

\* Lines 1124-1126: the timer that resets tick runs when it is due.
RunTick ==
  /\ \E timer \in timeouts :
       /\ timer.cb = "tick"
       /\ timer.due <= now
       /\ timeouts' = timeouts \ {timer}
  /\ tick' = FALSE
  /\ UNCHANGED <<throttleTimeoutId, now, triggered, mergeVars, cartVars>>

\* Time passes once every timer that is due has run.
Advance ==
  /\ now < MaxTime
  /\ \A timer \in timeouts : timer.due > now
  /\ now' = now + 1
  /\ UNCHANGED <<throttleTimeoutId, tick, timeouts, triggered, mergeVars, cartVars>>

(***************************************************************************)
(* Values.  A dataset entry (el.dataset.mergeCache) is undefined when the  *)
(* attribute is absent and a string otherwise: <<>> is undefined, <<s>> is *)
(* the string s.                                                           *)
(***************************************************************************)
Undefined == <<>>

Str(s) == <<s>>

\* JavaScript truthiness of a dataset entry: undefined and "" are falsy.
Truthy(v) == v # Undefined /\ v[1] # ""

\* Assigning to a dataset entry converts the value to a DOMString.
ToDOMString(v) == IF v = Undefined THEN Str("undefined") ELSE v

\* el.firstElementChild is null when the markup holds no element.
HasElementChild(html) == html # "text"

\* Mutant: the tracking sequence is not updated after an insertion.
SpliceForgotten(s, i, x) == s

\* Mutant: the inserted item is pushed to the end of the tracking sequence.
SplicePushes(s, i, x) == Append(s, x)

\* Array.prototype.splice(i, 0, x): a start beyond the length is clamped.
Splice(s, i, x) ==
  LET at == IF i > Len(s) THEN Len(s) ELSE i
  IN  SubSeq(s, 1, at) \o <<x>> \o SubSeq(s, at + 1, Len(s))

RemoveAt(s, i) == SubSeq(s, 1, i - 1) \o SubSeq(s, i + 1, Len(s))

\* Array.prototype.find by key (item.dataset.mergeListItem === key): the index
\* of the first item with that key, 0 when find returns undefined.
\* Mutant: no element is ever found.
FindByKeyNever(items, key) == 0

\* Mutant: find returns the last item with that key.
FindByKeyLast(items, key) ==
  IF \E i \in 1..Len(items) : items[i].key = key
  THEN CHOOSE i \in 1..Len(items) :
         items[i].key = key /\ \A j \in (i + 1)..Len(items) : items[j].key # key
  ELSE 0

FindByKey(items, key) ==
  IF \E i \in 1..Len(items) : items[i].key = key
  THEN CHOOSE i \in 1..Len(items) :
         items[i].key = key /\ \A j \in 1..(i - 1) : items[j].key # key
  ELSE 0

(***************************************************************************)
(* A list container's children, in document order.  A child ("slot") is a  *)
(* list item, possibly nested inside merge-remove-wrapper elements (wr,    *)
(* outermost first); it = <<>> when the item left with an inner wrapper    *)
(* and outer wrappers are still in the document.                           *)
(***************************************************************************)
RemoveItemClass == "merge-remove-item"

AddClasses == {"merge-add-wrapper", "merge-add-wrapper--slide", "merge-add-wrapper--fade"}

\* Server-rendered list item: no transient class, no pinned height, no timer.
PlainItem(id, key, html, cache) ==
  [id |-> id, key |-> key, html |-> html, cache |-> cache, cls |-> {},
   height |-> FALSE, disabled |-> FALSE, t |-> 0]

PlainSlot(item) == [wr |-> <<>>, it |-> <<item>>]

\* targetList.querySelectorAll('[data-merge-list-item]'): every item, wrapped or not.
RECURSIVE AllItems(_)
AllItems(slots) ==
  IF slots = <<>> THEN <<>>
  ELSE Head(slots).it \o AllItems(Tail(slots))

\* Mutant: the :not(.merge-remove-item) filter of line 206 is left out.
SelectAlsoRemoving(items) == items

RECURSIVE SelectNotRemoving(_)
SelectNotRemoving(items) ==
  IF items = <<>> THEN <<>>
  ELSE (IF RemoveItemClass \in Head(items).cls THEN <<>> ELSE <<Head(items)>>)
       \o SelectNotRemoving(Tail(items))

\* Mutant: the rebuilt list of line 206 comes back empty.
CurrentItemsNone(slots) == <<>>

\* Mutant: the list is not rebuilt and the removed items stay in the tracking.
CurrentItemsAll(slots) == AllItems(slots)

\* targetList.querySelectorAll('[data-merge-list-item]:not(.merge-remove-item)')
CurrentItems(slots) == SelectNotRemoving(AllItems(slots))

Ids(items) == [i \in 1..Len(items) |-> items[i].id]

\* The children of a container as element ids; 0 is a wrapper that holds no item.
DomIds(slots) ==
  [s \in 1..Len(slots) |-> IF slots[s].it = <<>> THEN 0 ELSE slots[s].it[1].id]

KeysOf(items) == [i \in 1..Len(items) |-> items[i].key]

\* The child of the container that holds element id.
SlotOf(slots, id) == CHOOSE i \in 1..Len(slots) : slots[i].it # <<>> /\ slots[i].it[1].id = id

ItemById(slots, id) == slots[SlotOf(slots, id)].it[1]

IdSet(items) == {items[i].id : i \in 1..Len(items)}

UsedIds(ls) == UNION {IdSet(AllItems(ls[k])) : k \in DOMAIN ls}

\* The element identity of a node that enters the document: the least unused id.
FreshId(ls) == CHOOSE n \in 1..(Cardinality(UsedIds(ls)) + 1) :
                 n \notin UsedIds(ls) /\ \A m \in 1..(n - 1) : m \in UsedIds(ls)

(***************************************************************************)
(* theme.hideAndRemove(el), lines 115-140.  The three nested setTimeout    *)
(* calls are one chain per wrapper: t is the callback now pending          *)
(* (1: add --fade, 2: add --slide, 3: wrapper.remove()).                   *)
(***************************************************************************)
NewWrapper == [cls |-> {"merge-remove-wrapper"}, height |-> TRUE, t |-> 1]

\* Mutant: line 117 is left out and the inputs of the item stay enabled.
HideAndRemoveSlotEnabled(slot) ==
  [wr |-> Append(slot.wr, NewWrapper),
   it |-> <<[slot.it[1] EXCEPT !.cls = @ \cup {RemoveItemClass}]>>]

\* Mutant: the item is wrapped without being given the merge-remove-item class.
HideAndRemoveSlotUnmarked(slot) ==
  [wr |-> Append(slot.wr, NewWrapper),
   it |-> <<[slot.it[1] EXCEPT !.disabled = TRUE]>>]

HideAndRemoveSlot(slot) ==
  [wr |-> Append(slot.wr, NewWrapper),
   it |-> <<[slot.it[1] EXCEPT !.disabled = TRUE,
                               !.cls = @ \cup {RemoveItemClass}]>>]

\* Mutant: the item is deleted at once instead of being wrapped and animated.
hideAndRemoveAtOnce(slots, id) == RemoveAt(slots, SlotOf(slots, id))

\* Mutant: an item that already has the merge-remove-item class is left alone.
hideAndRemoveOnce(slots, id) ==
  IF RemoveItemClass \in slots[SlotOf(slots, id)].it[1].cls THEN slots
  ELSE [slots EXCEPT ![SlotOf(slots, id)] = HideAndRemoveSlot(@)]

hideAndRemove(slots, id) ==
  [slots EXCEPT ![SlotOf(slots, id)] = HideAndRemoveSlot(@)]

(***************************************************************************)
(* theme.insertAndReveal(el, target, iaeCmd, delay), lines 142-165.        *)
(* The element gets its class and enters the document first; reading       *)
(* el.firstElementChild.clientHeight throws a TypeError when the item has  *)
(* no element child, before any timer is set.                              *)
(***************************************************************************)
\* target.insertAdjacentElement(iaeCmd, el): the index the new child takes.
InsertIndex(slots, iaeCmd, anchor) ==
  CASE iaeCmd = "afterbegin" -> 1
    [] iaeCmd = "beforeend" -> Len(slots) + 1
    [] iaeCmd = "beforebegin" -> SlotOf(slots, anchor)

\* Mutant: insertAndReveal throws for every item.
RevealThrowsAlways(newItem) == TRUE

RevealThrows(newItem) == ~HasElementChild(newItem.html)

RevealedItem(id, newItem) ==
  IF RevealThrows(newItem)
  THEN [PlainItem(id, newItem.key, newItem.html, newItem.cache)
          EXCEPT !.cls = {"merge-add-wrapper"}]
  ELSE [PlainItem(id, newItem.key, newItem.html, newItem.cache)
          EXCEPT !.cls = {"merge-add-wrapper"}, !.height = TRUE, !.t = 1]

insertAndReveal(slots, id, newItem, iaeCmd, anchor) ==
  LET at == InsertIndex(slots, iaeCmd, anchor)
  IN  SubSeq(slots, 1, at - 1) \o <<PlainSlot(RevealedItem(id, newItem))>>
        \o SubSeq(slots, at, Len(slots))

(***************************************************************************)
(* theme.mergeNodes(newContent, targetContainer), lines 167-242.           *)
(* st is the state inside one call: the live container, the writes made so *)
(* far and ex, whether an exception is propagating to the catch of line    *)
(* 239.  A null targetEl or targetList makes the first property access on  *)
(* it throw a TypeError before anything is written for that marker.        *)
(***************************************************************************)
\* Mutant: a marker without a live counterpart is skipped.
ThrowIgnored(st) == st

\* Mutant: the exception restores the container to what it was before the call.
ThrowRestores(st) ==
  [st EXCEPT !.content = content, !.attrs = attrs, !.lists = lists, !.ex = TRUE]

Throw(st) == [st EXCEPT !.ex = TRUE]

\* Mutant: the tokens are not consulted and the content is always replaced.
ShouldReplaceAlways(newCache, targetCache) == TRUE

\* Lines 172-174 and 214-216: the condition under which inner content is replaced.
ShouldReplace(newCache, targetCache) ==
  \/ ~Truthy(newCache)
  \/ ~Truthy(targetCache)
  \/ newCache # targetCache

\* Lines 176-178: the live content node's token after a replacement.
StampContentCache(newCache, targetCache) ==
  IF Truthy(newCache) \/ Truthy(targetCache)
  THEN ToDOMString(newCache)
  ELSE targetCache

\* Lines 218-220: the matched list item's token after a replacement.
StampItemCache(newCache, targetCache) ==
  IF Truthy(newCache) THEN ToDOMString(newCache) ELSE targetCache

\* Mutant: the new markup is written into every content-marked node.
MergeContentNodeAll(st, newEl) ==
  IF newEl.key \notin DOMAIN st.content THEN Throw(st)
  ELSE [st EXCEPT
          !.content = [k \in DOMAIN st.content |-> [st.content[k] EXCEPT !.html = newEl.html]],
          !.log = Append(@, [op |-> "content", key |-> newEl.key])]

\* Lines 170-180, the body of the forEach for one new [data-merge] node.
MergeContentNode(st, newEl) ==
  IF newEl.key \notin DOMAIN st.content THEN Throw(st)
  ELSE LET targetEl == st.content[newEl.key] IN
       IF ShouldReplace(newEl.cache, targetEl.cache)
       THEN [st EXCEPT
               !.content[newEl.key] =
                  [html |-> newEl.html,
                   cache |-> StampContentCache(newEl.cache, targetEl.cache)],
               !.log = Append(@, [op |-> "content", key |-> newEl.key])]
       ELSE st

\* Mutant: the live node's attributes are replaced by the new node's.
SyncAttributesReplace(newAttrs, targetAttrs) == newAttrs

\* Lines 184-188: setAttribute for every attribute name of the new node.
SyncAttributes(newAttrs, targetAttrs) ==
  [n \in DOMAIN targetAttrs \cup DOMAIN newAttrs |->
     IF n \in DOMAIN newAttrs THEN newAttrs[n] ELSE targetAttrs[n]]

\* Lines 182-189, the body of the forEach for one new [data-merge-attributes] node.
MergeAttributesNode(st, newEl) ==
  IF newEl.key \notin DOMAIN st.attrs THEN Throw(st)
  ELSE [st EXCEPT
          !.attrs[newEl.key] = SyncAttributes(newEl.attrs, @),
          !.log = Append(@, [op |-> "attrs", key |-> newEl.key])]

\* Lines 196-203: the removal pass over the snapshot of line 193.
RECURSIVE RemovePass(_, _, _, _)
RemovePass(st, list, targetListItems, newListItems) ==
  IF targetListItems = <<>> THEN st
  ELSE LET targetListItem == Head(targetListItems)
           matchedItem == FindByKey(newListItems, targetListItem.key)
           next == IF matchedItem = 0
                   THEN [st EXCEPT
                           !.lists[list] = hideAndRemove(@, targetListItem.id),
                           !.log = Append(@, [op |-> "remove", list |-> list,
                                              id |-> targetListItem.id,
                                              key |-> targetListItem.key])]
                   ELSE st
       IN  RemovePass(next, list, Tail(targetListItems), newListItems)

\* Mutant: a matched item is moved to the end of its list, as a keyed
\* reconciliation that reorders would do, instead of being updated in place.
UpdateItemMoves(st, list, id, newListItem) ==
  LET s == SlotOf(st.lists[list], id) IN
  [st EXCEPT !.lists[list] = Append(RemoveAt(st.lists[list], s), st.lists[list][s])]

\* Lines 212-221: a matched item is replaced if changed.
UpdateItem(st, list, id, newListItem) ==
  LET matchedItem == ItemById(st.lists[list], id) IN
  IF ShouldReplace(newListItem.cache, matchedItem.cache)
  THEN [st EXCEPT
          !.lists[list][SlotOf(st.lists[list], id)].it[1] =
             [@ EXCEPT !.html = newListItem.html,
                       !.disabled = FALSE,
                       !.cache = StampItemCache(newListItem.cache, matchedItem.cache)],
          !.log = Append(@, [op |-> "update", list |-> list, id |-> id,
                             key |-> newListItem.key])]
  ELSE st

\* Mutant: the first-place branch uses the command of the at-end branch.
InsertCommandFirstAtEnd(i, targetListItems) ==
  IF i = 0 \/ i >= Len(targetListItems) THEN "beforeend" ELSE "beforebegin"

\* Lines 224-233: where insertAndReveal puts the item of index i (0-based).
InsertCommand(i, targetListItems) ==
  IF i = 0 THEN "afterbegin"
  ELSE IF i >= Len(targetListItems) THEN "beforeend"
  ELSE "beforebegin"

\* Mutant: the anchor is taken one position too early.
InsertAnchorOffByOne(i, targetListItems) ==
  IF i > 0 /\ i < Len(targetListItems) THEN targetListItems[i] ELSE 0

\* Line 232: targetListItems[i] (0-based), the anchor of a beforebegin insertion.
InsertAnchor(i, targetListItems) ==
  IF InsertCommand(i, targetListItems) = "beforebegin"
  THEN targetListItems[i + 1]
  ELSE 0

\* Lines 223-235: the add branch.  targetListItems holds element ids.
AddItem(st, list, i, targetListItems, newListItem) ==
  LET id == FreshId(st.lists)
      slots == insertAndReveal(st.lists[list], id, newListItem,
                               InsertCommand(i, targetListItems),
                               InsertAnchor(i, targetListItems))
  IN  [st EXCEPT
         !.lists[list] = slots,
         !.ex = RevealThrows(newListItem),
         !.log = Append(@, [op |-> "insert", list |-> list, id |-> id,
                            key |-> newListItem.key, i |-> i,
                            track |-> targetListItems,
                            dom |-> DomIds(slots)])]

\* Lines 208-237: the insertion/update pass; i is the 0-based loop index.
RECURSIVE InsertPass(_, _, _, _, _)
InsertPass(st, list, targetListItems, newListItems, i) ==
  IF i >= Len(newListItems) \/ st.ex THEN st
  ELSE LET newListItem == newListItems[i + 1]
           trackItems == [j \in 1..Len(targetListItems) |->
                            ItemById(st.lists[list], targetListItems[j])]
           matchedItem == FindByKey(trackItems, newListItem.key)
       IN  IF matchedItem # 0
           THEN InsertPass(UpdateItem(st, list, targetListItems[matchedItem], newListItem),
                           list, targetListItems, newListItems, i + 1)
           ELSE InsertPass(AddItem(st, list, i, targetListItems, newListItem),
                           list,
                           Splice(targetListItems, i, FreshId(st.lists)),
                           newListItems, i + 1)

\* Lines 191-238, the body of the forEach for one new [data-merge-list].
MergeListNode(st, newList) ==
  IF newList.key \notin DOMAIN st.lists THEN Throw(st)
  ELSE LET targetListItems == AllItems(st.lists[newList.key])
           found == [st EXCEPT !.log = Append(@, [op |-> "list", list |-> newList.key,
                                                  old |-> targetListItems])]
           removed == RemovePass(found, newList.key, targetListItems, newList.items)
       IN  InsertPass(removed, newList.key,
                      Ids(CurrentItems(removed.lists[newList.key])),
                      newList.items, 0)

\* NodeList.forEach: an exception thrown by the callback ends the loop.
RECURSIVE ForEachContent(_, _)
ForEachContent(st, els) ==
  IF els = <<>> \/ st.ex THEN st
  ELSE ForEachContent(MergeContentNode(st, Head(els)), Tail(els))

RECURSIVE ForEachAttributes(_, _)
ForEachAttributes(st, els) ==
  IF els = <<>> \/ st.ex THEN st
  ELSE ForEachAttributes(MergeAttributesNode(st, Head(els)), Tail(els))

RECURSIVE ForEachList(_, _)
ForEachList(st, els) ==
  IF els = <<>> \/ st.ex THEN st
  ELSE ForEachList(MergeListNode(st, Head(els)), Tail(els))

\* Mutant: the three loops run in the opposite order.
TryBlockListsFirst(st, newContent) ==
  ForEachContent(ForEachAttributes(ForEachList(st, newContent.lists),
                                   newContent.attrs),
                 newContent.content)

\* The try block of lines 168-238: the three loops in program order.
TryBlock(st, newContent) ==
  ForEachList(ForEachAttributes(ForEachContent(st, newContent.content),
                                newContent.attrs),
              newContent.lists)

\* Lines 239-241: the catch clause reloads the page.
CatchReloads(st) == IF st.ex THEN 1 ELSE 0

mergeNodes(newContent) ==
  TryBlock([content |-> content, attrs |-> attrs, lists |-> lists,
            log |-> <<>>, ex |-> FALSE], newContent)

(***************************************************************************)
(* Bounds of the exploration.                                              *)
(***************************************************************************)
\* List-item keys in play: the first NumKeys of KeyNames.
NumKeys == 4

\* Longest server-rendered list, live or new.
MaxLen == 3

\* Runs of at most MaxCalls mergeNodes calls are explored.
MaxCalls == 2

\* A call is explored only if it leaves at most MaxSlots children in a list ...
MaxSlots == 4

\* ... and at most MaxWrap nested merge-remove-wrapper elements around an item.
MaxWrap == 2

KeyNames == <<"A", "B", "C", "D", "E", "F", "G", "H">>

Keys == {KeyNames[i] : i \in 1..NumKeys}

\* ... and at most MaxChains timer chains pending in a list.
MaxChains == 2

RECURSIVE PendingChains(_)
PendingChains(slots) ==
  IF slots = <<>> THEN 0
  ELSE Len(Head(slots).wr)
       + (IF Head(slots).it # <<>> /\ Head(slots).it[1].t > 0 THEN 1 ELSE 0)
       + PendingChains(Tail(slots))

WithinBounds(ls) ==
  \A k \in DOMAIN ls :
    /\ Len(ls[k]) <= MaxSlots
    /\ \A i \in 1..Len(ls[k]) : Len(ls[k][i].wr) <= MaxWrap
    /\ PendingChains(ls[k]) <= MaxChains

(***************************************************************************)
(* Steps.  Once window.location.reload() has been called the document is   *)
(* on its way out: no further step of this page is modelled.               *)
(***************************************************************************)
\* A caller (CartForm.refreshFromHtml, line 969) invokes theme.mergeNodes.
Merge(newContent) ==
  /\ reloads = 0
  /\ calls' = calls + 1
  /\ LET st == mergeNodes(newContent) IN
       /\ WithinBounds(st.lists)
       /\ content' = st.content
       /\ attrs' = st.attrs
       /\ lists' = st.lists
       /\ log' = st.log
       /\ reloads' = reloads + CatchReloads(st)
  /\ frag' = newContent
  /\ UNCHANGED <<orphans, style, throttleVars, cartVars>>

(***************************************************************************)
(* Durations, lines 127-129 and 148-150: both functions read the custom    *)
(* properties --fade-duration and --slide-duration of the computed style   *)
(* and turn them into the timeouts of their second and third timers.       *)
(* A number is the one-element tuple of its value and NaN the empty tuple. *)
(***************************************************************************)
NaN == <<>>

Num(n) == <<n>>

\* What getPropertyValue returns: "" for a property that is not set.
DurationValues == {"", "0.3s"}

Styles == [fade : DurationValues, slide : DurationValues]

ThemeStyle == [fade |-> "0.3s", slide |-> "0.3s"]

\* parseFloat(value) * 1000: parseFloat of a text that starts with no number
\* is NaN, and NaN times 1000 is NaN.
Milliseconds(value) ==
  CASE value = "0.3s" -> Num(300)
    [] OTHER -> NaN

\* Mutant: setTimeout with a NaN timeout never runs its callback.
SetTimeoutNaNNever(delay) == IF delay = NaN THEN -1 ELSE delay[1]

\* setTimeout(callback, delay): the timeout is converted to a long, NaN to 0.
SetTimeout(delay) == IF delay = NaN THEN 0 ELSE delay[1]

\* A callback runs once its timeout, a number of milliseconds, has passed.
Fires(timeout) == timeout \in Nat

\* Lines 131, 134, 137: the timeout hideAndRemove gives its timer t.
DetachDelay(t) ==
  CASE t = 1 -> Num(10)
    [] t = 2 -> Milliseconds(style.fade)
    [] t = 3 -> Milliseconds(style.slide)

\* Lines 143, 152, 155, 158: the timeout insertAndReveal gives its timer t;
\* mergeNodes passes a delay of 500 (lines 226-232).
RevealDelay(t) ==
  CASE t = 1 -> Num(500)
    [] t = 2 -> Milliseconds(style.slide)
    [] t = 3 -> Milliseconds(style.fade)

\* Timer callbacks left to run on a subtree once it is detached: a chain whose
\* callback t is pending still runs callbacks t..3.
Remaining(t) == IF t = 0 THEN 0 ELSE 4 - t

RECURSIVE RemainingIn(_)
RemainingIn(wrappers) ==
  IF wrappers = <<>> THEN 0
  ELSE Remaining(Head(wrappers).t) + RemainingIn(Tail(wrappers))

RemainingInItem(it) == IF it = <<>> THEN 0 ELSE Remaining(it[1].t)

\* Mutant: the first callback adds the slide class and skips the fade phase.
DetachFadeSkipped(k, s, j) ==
  /\ reloads = 0
  /\ lists[k][s].wr[j].t = 1
  /\ lists' = [lists EXCEPT ![k][s].wr[j] =
                 [@ EXCEPT !.cls = @ \cup {"merge-remove-wrapper--slide"}, !.t = 3]]
  /\ UNCHANGED <<content, attrs, orphans, reloads, frag, log, calls, style, throttleVars, cartVars>>

\* Line 132: the first callback of hideAndRemove adds the fade class.
DetachFade(k, s, j) ==
  /\ reloads = 0
  /\ lists[k][s].wr[j].t = 1
  /\ Fires(SetTimeout(DetachDelay(1)))
  /\ lists' = [lists EXCEPT ![k][s].wr[j] =
                 [@ EXCEPT !.cls = @ \cup {"merge-remove-wrapper--fade"}, !.t = 2]]
  /\ UNCHANGED <<content, attrs, orphans, reloads, frag, log, calls, style, throttleVars, cartVars>>

\* Line 135: the second callback adds the slide class.
DetachSlide(k, s, j) ==
  /\ reloads = 0
  /\ lists[k][s].wr[j].t = 2
  /\ Fires(SetTimeout(DetachDelay(2)))
  /\ lists' = [lists EXCEPT ![k][s].wr[j] =
                 [@ EXCEPT !.cls = @ \cup {"merge-remove-wrapper--slide"}, !.t = 3]]
  /\ UNCHANGED <<content, attrs, orphans, reloads, frag, log, calls, style, throttleVars, cartVars>>

\* Mutant: the wrapper is removed and what it holds takes its place.
WithoutWrapperOnly(slots, s, j) ==
  [slots EXCEPT ![s] = [wr |-> RemoveAt(@.wr, j), it |-> @.it]]

\* wrapper.remove() on wrapper j of child s: the wrapper leaves with all it holds.
WithoutWrapper(slots, s, j) ==
  IF j = 1 THEN RemoveAt(slots, s)
  ELSE [slots EXCEPT ![s] = [wr |-> SubSeq(@.wr, 1, j - 1), it |-> <<>>]]

\* Mutant: removing the wrapper cancels the timers pending on what it holds.
DetachRemoveCancels(k, s, j) ==
  /\ reloads = 0
  /\ lists[k][s].wr[j].t = 3
  /\ Fires(SetTimeout(DetachDelay(3)))
  /\ lists' = [lists EXCEPT ![k] = WithoutWrapper(@, s, j)]
  /\ UNCHANGED <<content, attrs, orphans, reloads, frag, log, calls, style, throttleVars, cartVars>>

\* Line 137: the third callback removes the wrapper.
DetachRemove(k, s, j) ==
  /\ reloads = 0
  /\ lists[k][s].wr[j].t = 3
  /\ Fires(SetTimeout(DetachDelay(3)))
  /\ lists' = [lists EXCEPT ![k] = WithoutWrapper(@, s, j)]
  /\ orphans' = orphans
                  + RemainingIn(SubSeq(lists[k][s].wr, j + 1, Len(lists[k][s].wr)))
                  + RemainingInItem(lists[k][s].it)
  /\ UNCHANGED <<content, attrs, reloads, frag, log, calls, style, throttleVars, cartVars>>

\* Mutant: the cleanup removes the classes and leaves the height pinned.
RevealStepKeepsHeight(item) ==
  CASE item.t = 1 -> [item EXCEPT !.cls = @ \cup {"merge-add-wrapper--slide"}, !.t = 2]
    [] item.t = 2 -> [item EXCEPT !.cls = @ \cup {"merge-add-wrapper--fade"}, !.t = 3]
    [] item.t = 3 -> [item EXCEPT !.cls = @ \ AddClasses, !.t = 0]

\* Lines 153, 156, 160-161: what callback t of insertAndReveal does to the item.
RevealStep(item) ==
  CASE item.t = 1 -> [item EXCEPT !.cls = @ \cup {"merge-add-wrapper--slide"}, !.t = 2]
    [] item.t = 2 -> [item EXCEPT !.cls = @ \cup {"merge-add-wrapper--fade"}, !.t = 3]
    [] item.t = 3 -> [item EXCEPT !.cls = @ \ AddClasses, !.height = FALSE, !.t = 0]

\* A callback of insertAndReveal fires on the item of child s.
RevealTimer(k, s) ==
  /\ reloads = 0
  /\ lists[k][s].it # <<>>
  /\ lists[k][s].it[1].t > 0
  /\ Fires(SetTimeout(RevealDelay(lists[k][s].it[1].t)))
  /\ lists' = [lists EXCEPT ![k][s].it[1] = RevealStep(@)]
  /\ UNCHANGED <<content, attrs, orphans, reloads, frag, log, calls, style, throttleVars, cartVars>>

\* A callback fires on a node that has left the document: the document is untouched.
OrphanTimer ==
  /\ reloads = 0
  /\ orphans > 0
  /\ orphans' = orphans - 1
  /\ UNCHANGED <<content, attrs, lists, reloads, frag, log, calls, style, throttleVars, cartVars>>

\* The callbacks pending on nodes of the document.
ListTimers ==
  \/ \E k \in DOMAIN lists : \E s \in 1..Len(lists[k]) : \E j \in 1..Len(lists[k][s].wr) :
       \/ DetachFade(k, s, j)
       \/ DetachSlide(k, s, j)
       \/ DetachRemove(k, s, j)
  \/ \E k \in DOMAIN lists : \E s \in 1..Len(lists[k]) : RevealTimer(k, s)

Timers ==
  \/ ListTimers
  \/ OrphanTimer

EmptyFrag == [content |-> <<>>, attrs |-> <<>>, lists |-> <<>>]

(***************************************************************************)
(* SpecList: one list, "cart", of items that differ in their keys only.    *)
(* Initially the server-rendered list holds the first n keys; any list     *)
(* with pairwise distinct keys is that list up to the names of its keys.   *)
(***************************************************************************)
ItemHtml == "<p>1</p>"

\* Sequences over S of length n without a repeated element.
RECURSIVE UniqueSeqs(_, _)
UniqueSeqs(S, n) ==
  IF n = 0 THEN {<<>>}
  ELSE UNION {{Append(q, x) : x \in S \ {q[i] : i \in 1..Len(q)}} :
                q \in UniqueSeqs(S, n - 1)}

NewItem(key, html, cache) == [key |-> key, html |-> html, cache |-> cache]

ListFrags ==
  {[content |-> <<>>, attrs |-> <<>>,
    lists |-> <<[key |-> "cart",
                 items |-> [i \in 1..Len(q) |-> NewItem(q[i], ItemHtml, Undefined)]]>>] :
     q \in UNION {UniqueSeqs(Keys, n) : n \in 0..MaxLen}}

InitList ==
  /\ content = <<>>
  /\ attrs = <<>>
  /\ \E n \in 0..MaxLen :
       lists = [k \in {"cart"} |->
                  [i \in 1..n |-> PlainSlot(PlainItem(i, KeyNames[i], ItemHtml, Undefined))]]
  /\ orphans = 0
  /\ reloads = 0
  /\ frag = EmptyFrag
  /\ log = <<>>
  /\ calls = 0
  /\ style = ThemeStyle
  /\ ThrottleIdle
  /\ CartIdle

NextList ==
  \/ calls < MaxCalls /\ \E f \in ListFrags : Merge(f)
  \/ Timers

SpecList == InitList /\ [][NextList]_vars

(***************************************************************************)
(* SpecReAdd: the list "cart" over one key less than SpecList and one call *)
(* more, so that a call can follow the call that inserted an item for the  *)
(* key of an item still mid-removal.                                       *)
(***************************************************************************)
ReAddKeys == {KeyNames[i] : i \in 1..(NumKeys - 1)}

ReAddFrags ==
  {[content |-> <<>>, attrs |-> <<>>,
    lists |-> <<[key |-> "cart",
                 items |-> [i \in 1..Len(q) |-> NewItem(q[i], ItemHtml, Undefined)]]>>] :
     q \in UNION {UniqueSeqs(ReAddKeys, n) : n \in 0..MaxLen}}

InitReAdd ==
  /\ content = <<>>
  /\ attrs = <<>>
  /\ \E n \in 1..(MaxLen - 1) :
       lists = [k \in {"cart"} |->
                  [i \in 1..n |-> PlainSlot(PlainItem(i, KeyNames[i], ItemHtml, Undefined))]]
  /\ orphans = 0
  /\ reloads = 0
  /\ frag = EmptyFrag
  /\ log = <<>>
  /\ calls = 0
  /\ style = ThemeStyle
  /\ ThrottleIdle
  /\ CartIdle

NextReAdd ==
  \/ calls < MaxCalls + 1 /\ \E f \in ReAddFrags : Merge(f)
  \/ Timers

SpecReAdd == InitReAdd /\ [][NextReAdd]_vars

(***************************************************************************)
(* SpecAnim: the list "cart" under any computed style, with the timers     *)
(* running fairly: the event loop runs every callback whose timeout has    *)
(* passed, so a timer that can fire does fire.                             *)
(***************************************************************************)
AnimKeys == {KeyNames[i] : i \in 1..(NumKeys - 2)}

AnimFrags ==
  {[content |-> <<>>, attrs |-> <<>>,
    lists |-> <<[key |-> "cart",
                 items |-> [i \in 1..Len(q) |-> NewItem(q[i], ItemHtml, Undefined)]]>>] :
     q \in UNION {UniqueSeqs(AnimKeys, n) : n \in 0..(MaxLen - 1)}}

InitAnim ==
  /\ content = <<>>
  /\ attrs = <<>>
  /\ \E n \in 0..(MaxLen - 1) :
       lists = [k \in {"cart"} |->
                  [i \in 1..n |-> PlainSlot(PlainItem(i, KeyNames[i], ItemHtml, Undefined))]]
  /\ orphans = 0
  /\ reloads = 0
  /\ frag = EmptyFrag
  /\ log = <<>>
  /\ calls = 0
  /\ style \in Styles
  /\ ThrottleIdle
  /\ CartIdle

NextAnim ==
  \/ calls < MaxCalls /\ \E f \in AnimFrags : Merge(f)
  \/ Timers

SpecAnim == InitAnim /\ [][NextAnim]_vars /\ WF_vars(Timers)

(***************************************************************************)
(* SpecDup: the list "cart" as rendered with a key that occurs twice,      *)
(* which the contract of the list diff rules out and the code does not     *)
(* check.  The new lists bring other markup than the one rendered.         *)
(***************************************************************************)
DupKeys == {"A", "B"}

NewHtml == "<p>2</p>"

\* The key sequences of length 2..MaxLen in which some key occurs twice.
DupLists ==
  {q \in UNION {[1..n -> DupKeys] : n \in 2..MaxLen} :
     \E i, j \in 1..Len(q) : i # j /\ q[i] = q[j]}

DupFrags ==
  {[content |-> <<>>, attrs |-> <<>>,
    lists |-> <<[key |-> "cart",
                 items |-> [i \in 1..Len(q) |-> NewItem(q[i], NewHtml, Undefined)]]>>] :
     q \in UNION {[1..n -> DupKeys] : n \in 0..2}}

InitDup ==
  /\ content = <<>>
  /\ attrs = <<>>
  /\ \E q \in DupLists :
       lists = [k \in {"cart"} |->
                  [i \in 1..Len(q) |-> PlainSlot(PlainItem(i, q[i], ItemHtml, Undefined))]]
  /\ orphans = 0
  /\ reloads = 0
  /\ frag = EmptyFrag
  /\ log = <<>>
  /\ calls = 0
  /\ style = ThemeStyle
  /\ ThrottleIdle
  /\ CartIdle

NextDup ==
  \/ calls < MaxCalls /\ \E f \in DupFrags : Merge(f)
  \/ Timers

SpecDup == InitDup /\ [][NextDup]_vars

(***************************************************************************)
(* SpecKeyless: the list "cart" and new lists of at most two items in      *)
(* which an item may come without a key: data-merge-list-item is there,    *)
(* which makes the node an item for querySelectorAll, and its value is     *)
(* the empty string.                                                       *)
(***************************************************************************)
NoKey == ""

KeylessKeys == {NoKey, "A", "B"}

KeylessFrags ==
  {[content |-> <<>>, attrs |-> <<>>,
    lists |-> <<[key |-> "cart",
                 items |-> [i \in 1..Len(q) |-> NewItem(q[i], ItemHtml, Undefined)]]>>] :
     q \in UNION {[1..n -> KeylessKeys] : n \in 0..2}}

InitKeyless ==
  /\ content = <<>>
  /\ attrs = <<>>
  /\ \E n \in 0..2 :
       lists = [k \in {"cart"} |->
                  [i \in 1..n |-> PlainSlot(PlainItem(i, KeyNames[i], ItemHtml, Undefined))]]
  /\ orphans = 0
  /\ reloads = 0
  /\ frag = EmptyFrag
  /\ log = <<>>
  /\ calls = 0
  /\ style = ThemeStyle
  /\ ThrottleIdle
  /\ CartIdle

NextKeyless ==
  \/ calls < MaxCalls /\ \E f \in KeylessFrags : Merge(f)
  \/ Timers

SpecKeyless == InitKeyless /\ [][NextKeyless]_vars

(***************************************************************************)
(* SpecContent: two content-marked nodes, "m1" and "m2", and fragments     *)
(* that carry new markup for one or both of them.  The token attribute is  *)
(* absent, empty or one of two values; the markup is one of two values.    *)
(***************************************************************************)
TokenValues == {Undefined, Str(""), Str("t1"), Str("t2")}

HtmlValues == {"<p>1</p>", "<p>2</p>"}

ContentKeys == {"m1", "m2"}

NewContentEl(key, html, cache) == [key |-> key, html |-> html, cache |-> cache]

\* Sequences of new [data-merge] nodes with pairwise distinct marker keys.
ContentEls(keys) ==
  UNION {{[i \in 1..Len(q) |-> NewContentEl(q[i], h[i], c[i])] :
            h \in [1..Len(q) -> HtmlValues], c \in [1..Len(q) -> TokenValues]} :
           q \in UNION {UniqueSeqs(keys, n) : n \in 0..Cardinality(keys)}}

ContentFrags ==
  {[content |-> els, attrs |-> <<>>, lists |-> <<>>] : els \in ContentEls(ContentKeys)}

InitContent ==
  /\ content \in [ContentKeys -> [html : HtmlValues, cache : TokenValues]]
  /\ attrs = <<>>
  /\ lists = <<>>
  /\ orphans = 0
  /\ reloads = 0
  /\ frag = EmptyFrag
  /\ log = <<>>
  /\ calls = 0
  /\ style = ThemeStyle
  /\ ThrottleIdle
  /\ CartIdle

NextContent == calls < MaxCalls /\ \E f \in ContentFrags : Merge(f)

SpecContent == InitContent /\ [][NextContent]_vars

(***************************************************************************)
(* SpecTwin: a content-marked node "m1" and a list "cart" whose only item  *)
(* "A" start with the same markup and the same token, and every fragment   *)
(* brings the same new markup and the same new token for both.             *)
(***************************************************************************)
TwinFrags ==
  {[content |-> <<NewContentEl("m1", h, c)>>,
    attrs |-> <<>>,
    lists |-> <<[key |-> "cart", items |-> <<NewItem("A", h, c)>>]>>] :
     h \in HtmlValues, c \in TokenValues}

InitTwin ==
  /\ \E h \in HtmlValues, c \in TokenValues :
       /\ content = [k \in {"m1"} |-> [html |-> h, cache |-> c]]
       /\ lists = [k \in {"cart"} |-> <<PlainSlot(PlainItem(1, "A", h, c))>>]
  /\ attrs = <<>>
  /\ orphans = 0
  /\ reloads = 0
  /\ frag = EmptyFrag
  /\ log = <<>>
  /\ calls = 0
  /\ style = ThemeStyle
  /\ ThrottleIdle
  /\ CartIdle

NextTwin == calls < MaxCalls /\ \E f \in TwinFrags : Merge(f)

SpecTwin == InitTwin /\ [][NextTwin]_vars

(***************************************************************************)
(* SpecMarkers: a container with one marker of each kind, the content node *)
(* "m1", the attribute node "a1" and the list "cart".  Fragments bring new *)
(* markup for them, markers the container does not have ("m9", "a9",       *)
(* "l9"), a new item without an element child, or exactly what the         *)
(* container holds.                                                        *)
(***************************************************************************)
NewAttrsEl(key, value) == [key |-> key, attrs |-> [n \in {"class"} |-> value]]

NewList(key, items) == [key |-> key, items |-> items]

MarkerContents ==
  LET m1 == NewContentEl("m1", "<p>2</p>", Str("t2"))
      m9 == NewContentEl("m9", "<p>2</p>", Str("t2"))
  IN  {<<>>, <<m1>>, <<m1, m9>>, <<m9, m1>>}

MarkerAttrs ==
  {<<>>, <<NewAttrsEl("a1", "off")>>, <<NewAttrsEl("a1", "off"), NewAttrsEl("a9", "off")>>}

MarkerLists ==
  LET A == NewItem("A", "<p>2</p>", Str("t2"))
      C == NewItem("C", "<p>2</p>", Str("t2"))
      T == NewItem("C", "text", Str("t2"))
  IN  {<<>>, <<NewList("l9", <<>>), NewList("cart", <<C>>)>>,
       <<NewList("cart", <<C>>), NewList("l9", <<>>)>>,
       <<NewList("cart", <<A, C>>)>>, <<NewList("cart", <<A, T>>)>>}

MarkerFrags ==
  {[content |-> c, attrs |-> a, lists |-> l] :
     c \in MarkerContents, a \in MarkerAttrs, l \in MarkerLists}

\* The fragment a server renders for exactly what the container holds.
FragOfLive ==
  [content |-> <<NewContentEl("m1", content["m1"].html, content["m1"].cache)>>,
   attrs |-> <<[key |-> "a1", attrs |-> attrs["a1"]]>>,
   lists |-> <<NewList("cart",
                       LET items == AllItems(lists["cart"]) IN
                       [i \in 1..Len(items) |->
                          NewItem(items[i].key, items[i].html, items[i].cache)])>>]

InitMarkers ==
  /\ \E c \in {Str(""), Str("t1")}, n \in 0..2 :
       /\ content = [k \in {"m1"} |-> [html |-> "<p>1</p>", cache |-> c]]
       /\ lists = [k \in {"cart"} |->
                     [i \in 1..n |-> PlainSlot(PlainItem(i, KeyNames[i], "<p>1</p>", c))]]
  /\ attrs = [k \in {"a1"} |-> [n \in {"class"} |-> "on"]]
  /\ orphans = 0
  /\ reloads = 0
  /\ frag = EmptyFrag
  /\ log = <<>>
  /\ calls = 0
  /\ style = ThemeStyle
  /\ ThrottleIdle
  /\ CartIdle

NextMarkers ==
  \/ calls < MaxCalls /\ \E f \in MarkerFrags \cup {FragOfLive} : Merge(f)
  \/ Timers

SpecMarkers == InitMarkers /\ [][NextMarkers]_vars

(***************************************************************************)
(* SpecAttrs: two attribute-marked nodes, "a1" and "a2".  A node carries   *)
(* any of the attributes class and title, each with one of two values;     *)
(* fragments carry new nodes for one or both markers.                      *)
(***************************************************************************)
AttrNames == {"class", "title"}

AttrValues == {"x", "y"}

AttrKeys == {"a1", "a2"}

\* What getAttributeNames/getAttribute can report of a node.
AttrMaps == UNION {[D -> AttrValues] : D \in SUBSET AttrNames}

\* Sequences of new [data-merge-attributes] nodes with pairwise distinct keys.
AttrEls(keys) ==
  UNION {{[i \in 1..Len(q) |-> [key |-> q[i], attrs |-> m[i]]] :
            m \in [1..Len(q) -> AttrMaps]} :
           q \in UNION {UniqueSeqs(keys, n) : n \in 0..Cardinality(keys)}}

AttrFrags ==
  {[content |-> <<>>, attrs |-> els, lists |-> <<>>] : els \in AttrEls(AttrKeys)}

InitAttrs ==
  /\ content = <<>>
  /\ \E m \in AttrMaps :
       attrs = [k \in AttrKeys |-> IF k = "a1" THEN m ELSE [n \in {"class"} |-> "x"]]
  /\ lists = <<>>
  /\ orphans = 0
  /\ reloads = 0
  /\ frag = EmptyFrag
  /\ log = <<>>
  /\ calls = 0
  /\ style = ThemeStyle
  /\ ThrottleIdle
  /\ CartIdle

NextAttrs == calls < MaxCalls /\ \E f \in AttrFrags : Merge(f)

SpecAttrs == InitAttrs /\ [][NextAttrs]_vars

(***************************************************************************)
(* SpecFrame: a container with two markers of each kind, the content nodes *)
(* "m1" and "m2", the attribute nodes "a1" and "a2" and the lists "cart"   *)
(* and "wish".  A fragment brings new markup for any of them and leaves    *)
(* the others out.                                                         *)
(***************************************************************************)
FrameLists == {"cart", "wish"}

FrameContents ==
  LET m1 == NewContentEl("m1", NewHtml, Undefined)
      m2 == NewContentEl("m2", NewHtml, Undefined)
  IN  {<<>>, <<m1>>, <<m2>>, <<m1, m2>>}

FrameAttrs ==
  {<<>>, <<NewAttrsEl("a1", "off")>>, <<NewAttrsEl("a2", "off")>>,
   <<NewAttrsEl("a1", "off"), NewAttrsEl("a2", "off")>>}

FrameNewLists ==
  LET B == NewItem("B", NewHtml, Undefined)
  IN  {<<>>, <<NewList("cart", <<B>>)>>, <<NewList("wish", <<B>>)>>,
       <<NewList("cart", <<B>>), NewList("wish", <<B>>)>>}

FrameFrags ==
  {[content |-> c, attrs |-> a, lists |-> l] :
     c \in FrameContents, a \in FrameAttrs, l \in FrameNewLists}

InitFrame ==
  /\ content = [k \in ContentKeys |-> [html |-> ItemHtml, cache |-> Undefined]]
  /\ attrs = [k \in AttrKeys |-> [n \in {"class"} |-> "on"]]
  /\ lists = [k \in FrameLists |->
                <<PlainSlot(PlainItem(IF k = "cart" THEN 1 ELSE 2, "A", ItemHtml, Undefined))>>]
  /\ orphans = 0
  /\ reloads = 0
  /\ frag = EmptyFrag
  /\ log = <<>>
  /\ calls = 0
  /\ style = ThemeStyle
  /\ ThrottleIdle
  /\ CartIdle

NextFrame ==
  \/ calls < MaxCalls /\ \E f \in FrameFrags : Merge(f)
  \/ Timers

SpecFrame == InitFrame /\ [][NextFrame]_vars

(***************************************************************************)
(* SpecThrottle: the closure throttle returns, invoked at any times, with  *)
(* its timers running when they are due.                                   *)
(***************************************************************************)
InitThrottle ==
  /\ content = <<>>
  /\ attrs = <<>>
  /\ lists = <<>>
  /\ orphans = 0
  /\ reloads = 0
  /\ frag = EmptyFrag
  /\ log = <<>>
  /\ calls = 0
  /\ style = ThemeStyle
  /\ ThrottleIdle
  /\ CartIdle

NextThrottle == Invoke \/ RunFn \/ RunTick \/ Advance

SpecThrottle == InitThrottle /\ [][NextThrottle]_vars

(***************************************************************************)
(* SpecTokens: the list "cart" as a server renders it that derives the     *)
(* token of an item from its markup: token "t1" goes with the first        *)
(* markup, "t2" with the second, and an item may come without a token.     *)
(***************************************************************************)
TokenKeys == {"A", "B"}

\* The markup the server delivers with token t.
DeliveredWith(t) == IF t = Str("t1") THEN ItemHtml ELSE NewHtml

\* The (markup, token) pairs the server delivers.
Deliveries ==
  {[html |-> DeliveredWith(c), cache |-> c] : c \in {Str("t1"), Str("t2")}}
    \cup {[html |-> h, cache |-> Undefined] : h \in {ItemHtml, NewHtml}}

TokenFrags ==
  {[content |-> <<>>, attrs |-> <<>>,
    lists |-> <<[key |-> "cart",
                 items |-> [i \in 1..Len(q) |-> NewItem(q[i], d[i].html, d[i].cache)]]>>] :
     q \in UNION {UniqueSeqs(TokenKeys, n) : n \in 0..2}, d \in [1..2 -> Deliveries]}

InitTokens ==
  /\ content = <<>>
  /\ attrs = <<>>
  /\ \E n \in 1..2, d \in [1..2 -> Deliveries] :
       lists = [k \in {"cart"} |->
                  [i \in 1..n |-> PlainSlot(PlainItem(i, KeyNames[i], d[i].html, d[i].cache))]]
  /\ orphans = 0
  /\ reloads = 0
  /\ frag = EmptyFrag
  /\ log = <<>>
  /\ calls = 0
  /\ style = ThemeStyle
  /\ ThrottleIdle
  /\ CartIdle

NextTokens ==
  \/ calls < MaxCalls /\ \E f \in TokenFrags : Merge(f)
  \/ Timers

SpecTokens == InitTokens /\ [][NextTokens]_vars

(***************************************************************************)
(* Vocabulary of the properties.                                           *)
(***************************************************************************)
LogOps(op) == SelectSeq(log, LAMBDA e : e.op = op)

Range(q) == {q[i] : i \in 1..Len(q)}

Pos(q, x) == CHOOSE i \in 1..Len(q) : q[i] = x

UniqueKeys(items) ==
  \A i, j \in 1..Len(items) : i # j => items[i].key # items[j].key

\* The list of the latest fragment that carries marker key k.
NewListItems(k) ==
  LET i == CHOOSE i \in 1..Len(frag.lists) : frag.lists[i].key = k
  IN  frag.lists[i].items

\* The subsequence of q made of the elements that are in S.
RECURSIVE Restrict(_, _)
Restrict(q, S) ==
  IF q = <<>> THEN <<>>
  ELSE (IF Head(q) \in S THEN <<Head(q)>> ELSE <<>>) \o Restrict(Tail(q), S)

SameRelativeOrder(p, q) == Restrict(p, Range(q)) = Restrict(q, Range(p))

HasRemoveClass(item) == RemoveItemClass \in item.cls

\* No timer of hideAndRemove or insertAndReveal is pending anywhere.
Settled ==
  /\ orphans = 0
  /\ \A k \in DOMAIN lists : \A s \in 1..Len(lists[k]) :
       /\ lists[k][s].wr = <<>>
       /\ lists[k][s].it[1].t = 0

RemovedIds(k) == {e.id : e \in {x \in Range(LogOps("remove")) : x.list = k}}

InsertedKeys(k) == {e.key : e \in {x \in Range(LogOps("insert")) : x.list = k}}

\* C2's precondition on the list snapshot e of the latest call.
C2_Pre(e) ==
  /\ reloads = 0
  /\ UniqueKeys(e.old)
  /\ UniqueKeys(NewListItems(e.list))
  /\ SameRelativeOrder(KeysOf(e.old), KeysOf(NewListItems(e.list)))

C2_Detached(e) ==
  RemovedIds(e.list) =
    {x.id : x \in {y \in Range(e.old) : y.key \notin Range(KeysOf(NewListItems(e.list)))}}

C2_SettlesToNew(e) ==
  Settled => KeysOf(AllItems(lists[e.list])) = KeysOf(NewListItems(e.list))

\* C2 as claimed: an old list with unique keys and a new list with unique keys
\* whose matched keys agree in relative order settle to the new key sequence;
\* exactly the old items absent from the new list are detached and exactly the
\* new items absent from the old list are revealed.
C2_AsClaimed ==
  \A e \in Range(LogOps("list")) :
    C2_Pre(e) =>
      /\ C2_SettlesToNew(e)
      /\ C2_Detached(e)
      /\ InsertedKeys(e.list) = Range(KeysOf(NewListItems(e.list))) \ Range(KeysOf(e.old))

\* C2, amended: as claimed, except that the revealed items are exactly the new
\* items whose key matches no old item that is not already mid-removal.
C2_SettledList ==
  \A e \in Range(LogOps("list")) :
    C2_Pre(e) =>
      /\ C2_SettlesToNew(e)
      /\ C2_Detached(e)
      /\ InsertedKeys(e.list) =
           Range(KeysOf(NewListItems(e.list))) \ Range(KeysOf(SelectNotRemoving(e.old)))

\* The spec's example shape: one item detached, one revealed, two kept, all settled.
C2_Witness ==
  /\ Settled
  /\ \E e \in Range(LogOps("list")) :
       /\ C2_Pre(e)
       /\ Cardinality(RemovedIds(e.list)) = 1
       /\ Cardinality(InsertedKeys(e.list)) = 1
       /\ Len(NewListItems(e.list)) = 3
       /\ KeysOf(AllItems(lists[e.list])) = KeysOf(NewListItems(e.list))

InsertsAt(P(_)) == {e \in Range(LogOps("insert")) : P(e.i)}

\* The items of list k that are in the document now, by element id.
LiveIds(k) == IdSet(AllItems(lists[k]))

\* C3: a new item of index 0 that matches no current old item is put before the
\* first current old item (first in the container when there is none) and, from
\* then on, precedes every current old item still in the list.
C3_FirstPlace ==
  \A e \in InsertsAt(LAMBDA i : i = 0) :
    /\ IF e.track = <<>>
       THEN e.dom[1] = e.id
       ELSE \A x \in Range(e.track) : Pos(e.dom, e.id) < Pos(e.dom, x)
    /\ e.id \in LiveIds(e.list)
    /\ \A x \in Range(e.track) \cap LiveIds(e.list) :
         Pos(DomIds(lists[e.list]), e.id) < Pos(DomIds(lists[e.list]), x)

\* Old [B,C], new [A,B,C]: A was put first and the list now reads A, B, C.
C3_Witness ==
  \E e \in InsertsAt(LAMBDA i : i = 0) :
    /\ Len(e.track) = 2
    /\ KeysOf(AllItems(lists[e.list])) = KeysOf(NewListItems(e.list))
    /\ Len(NewListItems(e.list)) = 3
    /\ Cardinality(InsertedKeys(e.list)) = 1

\* C4: a new item of index i > 0 that matches no current old item is put
\* immediately before the item at position i of the tracking sequence when
\* there is one, and becomes the last child of the list container otherwise.
C4_IndexedPlace ==
  \A e \in InsertsAt(LAMBDA i : i > 0) :
    IF e.i < Len(e.track)
    THEN Pos(e.dom, e.id) + 1 = Pos(e.dom, e.track[e.i + 1])
    ELSE e.dom[Len(e.dom)] = e.id

\* Old [A,C], new [A,B,C]: B was put immediately before C.
C4_Witness ==
  \E e \in InsertsAt(LAMBDA i : i = 1) :
    /\ Len(e.track) = 2
    /\ Len(NewListItems(e.list)) = 3
    /\ Cardinality(InsertedKeys(e.list)) = 1
    /\ e.dom = <<e.track[1], e.id, e.track[2]>>

WrappersOf(ls, k, id) == ls[k][SlotOf(ls[k], id)].wr

ListsMerged == {e.list : e \in Range(LogOps("list"))}

\* The item keys that fragment f offers for the list of marker key k.
NewKeySet(f, k) ==
  UNION {Range(KeysOf(f.lists[i].items)) :
           i \in {n \in 1..Len(f.lists) : f.lists[n].key = k}}

\* A mergeNodes step: every old item of a merged list is still in the document;
\* one whose key matches no new item has one more wrapper, with its first timer
\* pending, and the merge-remove-item class; one whose key matches a new item
\* has the wrappers it had.
C10_DetachStarts ==
  calls' = calls + 1 =>
    \A k \in {e.list : e \in {x \in Range(log') : x.op = "list"}} :
      LET newKeys == NewKeySet(frag', k)
      IN  \A i \in 1..Len(AllItems(lists[k])) :
            LET x == AllItems(lists[k])[i] IN
            /\ x.id \in IdSet(AllItems(lists'[k]))
            /\ IF x.key \in newKeys
               THEN /\ WrappersOf(lists', k, x.id) = WrappersOf(lists, k, x.id)
                    /\ ItemById(lists'[k], x.id).cls = x.cls
               ELSE /\ WrappersOf(lists', k, x.id)
                         = Append(WrappersOf(lists, k, x.id), NewWrapper)
                    /\ HasRemoveClass(ItemById(lists'[k], x.id))

\* A timer step: an item leaves the document only together with a wrapper, and
\* no wrapper around an item leaves without it.  Done(w) says which wrappers
\* the leaving item must have had.
C10_DetachEnds(LeavesWhen(_)) ==
  calls' = calls =>
    \A k \in DOMAIN lists : \A i \in 1..Len(AllItems(lists[k])) :
      LET x == AllItems(lists[k])[i] IN
      IF x.id \in IdSet(AllItems(lists'[k]))
      THEN Len(WrappersOf(lists', k, x.id)) = Len(WrappersOf(lists, k, x.id))
      ELSE LeavesWhen(WrappersOf(lists, k, x.id))

\* C10 as claimed: an unmatched old item starts a detach sequence in the call
\* and stays in the document until that sequence completes; a matched one
\* starts none.  Read at its weakest: when the item leaves, every detach
\* sequence started on it has run its fade and slide callbacks.
C10_AsClaimed ==
  [][/\ C10_DetachStarts
     /\ C10_DetachEnds(LAMBDA wr : wr # <<>> /\ \A j \in 1..Len(wr) : wr[j].t = 3)]_vars

\* C10, amended: the item stays in the document until a detach sequence running
\* on it completes, the one this call started or one an earlier call started.
C10_Detach ==
  [][/\ C10_DetachStarts
     /\ C10_DetachEnds(LAMBDA wr : \E j \in 1..Len(wr) : wr[j].t = 3)]_vars

\* An item the latest call detached is about to leave: its wrapper has run fade
\* and slide, and another old item of that call was matched and carries no wrapper.
C10_Witness ==
  \E k \in DOMAIN lists : \E s, u \in 1..Len(lists[k]) :
    /\ lists[k][s].it # <<>> /\ lists[k][u].it # <<>>
    /\ lists[k][s].it[1].id \in RemovedIds(k)
    /\ Len(lists[k][s].wr) = 1
    /\ lists[k][s].wr[1].t = 3
    /\ lists[k][s].wr[1].cls =
         {"merge-remove-wrapper", "merge-remove-wrapper--fade", "merge-remove-wrapper--slide"}
    /\ lists[k][u].wr = <<>>
    /\ lists[k][u].it[1].id \in {x.id : x \in UNION {Range(e.old) : e \in Range(LogOps("list"))}}

ContentWritten(lg, key) == \E i \in 1..Len(lg) : lg[i].op = "content" /\ lg[i].key = key

\* A mergeNodes step, for every new content node with a live counterpart (the
\* keys of one fragment are distinct): the live inner content is replaced by
\* the new one exactly when NoToken holds of the new token or of the live
\* token or the two differ, and is left as it was otherwise.
C1_Rule(NoToken(_)) ==
  calls' = calls + 1 =>
    \A i \in 1..Len(frag'.content) :
      LET newEl == frag'.content[i] IN
      newEl.key \in DOMAIN content =>
        IF \/ NoToken(newEl.cache)
           \/ NoToken(content[newEl.key].cache)
           \/ newEl.cache # content[newEl.key].cache
        THEN /\ ContentWritten(log', newEl.key)
             /\ content'[newEl.key].html = newEl.html
        ELSE /\ ~ContentWritten(log', newEl.key)
             /\ content'[newEl.key] = content[newEl.key]

\* C1 as claimed: replacement if and only if the new token is absent, or the
\* live token is absent, or the two differ.
C1_AsClaimed == [][C1_Rule(LAMBDA v : v = Undefined)]_vars

\* C1, amended: replacement if and only if the new token is absent or empty, or
\* the live token is absent or empty, or the two differ; two equal non-empty
\* tokens leave the live content unchanged even if the new content differs.
C1_TokenRule == [][C1_Rule(LAMBDA v : v = Undefined \/ v = Str(""))]_vars

\* The latest call met an equal, non-empty token and different markup, and left
\* the live content alone.
C1_Witness ==
  /\ calls > 0
  /\ \E i \in 1..Len(frag.content) :
       /\ frag.content[i].cache = Str("t1")
       /\ content[frag.content[i].key].cache = Str("t1")
       /\ content[frag.content[i].key].html # frag.content[i].html
       /\ ~ContentWritten(log, frag.content[i].key)

\* C9 as claimed: after a replacement in which the new node or the live node
\* carried a token, the live token equals the new node's token.
C9_AsClaimed ==
  [][calls' = calls + 1 =>
       \A i \in 1..Len(frag'.content) :
         LET newEl == frag'.content[i] IN
         (/\ newEl.key \in DOMAIN content
          /\ ContentWritten(log', newEl.key)
          /\ (newEl.cache # Undefined \/ content[newEl.key].cache # Undefined))
           => content'[newEl.key].cache = newEl.cache]_vars

\* C8 as claimed: a matched list item is updated under the same rule as a
\* content-marked node, so a node and an item that start with the same markup
\* and token and are given the same new markup and token stay equal in both.
C8_AsClaimed ==
  \A s \in 1..Len(lists["cart"]) :
    \A j \in 1..Len(lists["cart"][s].it) :
      LET item == lists["cart"][s].it[j] IN
      /\ item.html = content["m1"].html
      /\ item.cache = content["m1"].cache

NoWrites(lg) ==
  \A i \in 1..Len(lg) : lg[i].op \notin {"content", "update", "insert", "remove"}

NoRemovalInProgress ==
  \A k \in DOMAIN lists : \A s \in 1..Len(lists[k]) :
    /\ lists[k][s].wr = <<>>
    /\ ~HasRemoveClass(lists[k][s].it[1])

LiveTokens ==
  {content[k].cache : k \in DOMAIN content}
    \cup UNION {{AllItems(lists[k])[i].cache : i \in 1..Len(AllItems(lists[k]))} :
                  k \in DOMAIN lists}

\* A mergeNodes step with the fragment that is identical to the live container,
\* all of whose tokens satisfy Present, writes nothing and schedules nothing:
\* content, attributes, lists (classes, heights and pending timers included)
\* are what they were, and no content replacement, removal or insertion happened.
C5_NoOp(Present(_)) ==
  (/\ calls' = calls + 1
   /\ NoRemovalInProgress
   /\ frag' = FragOfLive
   /\ \A c \in LiveTokens : Present(c))
    => /\ content' = content
       /\ attrs' = attrs
       /\ lists' = lists
       /\ orphans' = orphans
       /\ reloads' = reloads
       /\ NoWrites(log')

\* C5 as claimed: with the same tokens present on both sides.
C5_AsClaimed == [][C5_NoOp(LAMBDA c : c # Undefined)]_vars

\* C5, amended: with the same tokens present and non-empty on both sides,
\* merging the identical fragment performs no DOM mutation and starts no
\* detach or reveal animation.
C5_Idempotent == [][C5_NoOp(LAMBDA c : c # Undefined /\ c # Str(""))]_vars

\* The latest call merged the identical fragment into a container with two
\* list items and non-empty tokens, and wrote nothing.
C5_Witness ==
  /\ calls > 0
  /\ reloads = 0
  /\ NoRemovalInProgress
  /\ frag = FragOfLive
  /\ Len(lists["cart"]) >= 2
  /\ \A c \in LiveTokens : Truthy(c)
  /\ NoWrites(log)

\* Some marker of fragment f has no live counterpart.
LookupFails(f) ==
  \/ \E i \in 1..Len(f.content) : f.content[i].key \notin DOMAIN content
  \/ \E i \in 1..Len(f.attrs) : f.attrs[i].key \notin DOMAIN attrs
  \/ \E i \in 1..Len(f.lists) : f.lists[i].key \notin DOMAIN lists

\* C6: a mergeNodes call whose fragment holds a content marker, an attribute
\* marker or a list marker without live counterpart calls
\* window.location.reload exactly once.
C6_OneReload ==
  [][(calls' = calls + 1 /\ LookupFails(frag')) => reloads' = reloads + 1]_vars

\* A fragment with two markers that lack a counterpart was merged: one reload.
C6_Witness ==
  /\ reloads = 1
  /\ \E i \in 1..Len(frag.attrs) : frag.attrs[i].key \notin DOMAIN attrs
  /\ \E i \in 1..Len(frag.lists) : frag.lists[i].key \notin DOMAIN lists

\* The markers of f in processing order: content, attribute, list markers.
NumMarkers(f) == Len(f.content) + Len(f.attrs) + Len(f.lists)

Clamp(n, len) == IF n < 0 THEN 0 ELSE IF n > len THEN len ELSE n

\* The fragment that holds the first n markers of f.
PrefixFrag(f, n) ==
  [content |-> SubSeq(f.content, 1, Clamp(n, Len(f.content))),
   attrs |-> SubSeq(f.attrs, 1, Clamp(n - Len(f.content), Len(f.attrs))),
   lists |-> SubSeq(f.lists, 1,
                    Clamp(n - Len(f.content) - Len(f.attrs), Len(f.lists)))]

\* The position of the marker at which merging f raises the exception: the
\* first n, from n on, such that merging the first n markers raises it.
RECURSIVE FailingMarker(_, _)
FailingMarker(f, n) ==
  IF mergeNodes(PrefixFrag(f, n)).ex THEN n ELSE FailingMarker(f, n + 1)

\* The key of the list the exception was raised in, if marker n of f is a list.
FailingList(f, n) ==
  IF n > Len(f.content) + Len(f.attrs)
  THEN {f.lists[n - Len(f.content) - Len(f.attrs)].key}
  ELSE {}

\* C7 as claimed: when the reload is triggered the live container is in the
\* state it had before the call.
C7_AsClaimed ==
  [][reloads' = reloads + 1 =>
       content' = content /\ attrs' = attrs /\ lists' = lists]_vars

\* C7, amended: a merge that hits a fatal condition keeps the patches made
\* before the failure and makes none after it.  When the reload is triggered,
\* the live container is in the state that merging only the markers that
\* precede the failing one would have produced; a list in which
\* insertAndReveal raised the exception additionally keeps what was done to
\* it up to the exception.
C7_PatchedUpToFailure ==
  [][reloads' = reloads + 1 =>
       LET n == FailingMarker(frag', 1)
           before == mergeNodes(PrefixFrag(frag', n - 1))
           inList == FailingList(frag', n) \cap DOMAIN lists
       IN  /\ content' = before.content
           /\ attrs' = before.attrs
           /\ \A k \in DOMAIN lists \ inList : lists'[k] = before.lists[k]
           /\ \A k \in inList :
                \A i \in 1..Len(log') : log'[i].op = "insert" /\ log'[i].list = k
                  => log'[i].id \in Range(DomIds(lists'[k]))]_vars

\* The reload was triggered by a missing attribute marker after the content
\* node "m1" had been replaced by the same call.
C7_Witness ==
  /\ reloads = 1
  /\ ContentWritten(log, "m1")
  /\ content["m1"].html = "<p>2</p>"
  /\ \E i \in 1..Len(frag.attrs) : frag.attrs[i].key \notin DOMAIN attrs

\* The old items of snapshot e whose key is carried by some new item, by id.
MatchedIds(e) ==
  {x.id : x \in {y \in Range(e.old) : y.key \in Range(KeysOf(NewListItems(e.list)))}}

\* C11: mergeNodes never moves a matched list item.  The old items that have a
\* match in the new list stand in the live list in the relative order they had
\* when the call took its snapshot, whatever order the new list gives their keys.
C11_NoReorder ==
  \A e \in Range(LogOps("list")) :
    LET still == MatchedIds(e) \cap LiveIds(e.list) IN
    Restrict(Ids(AllItems(lists[e.list])), still) = Restrict(Ids(e.old), still)

\* Old [A,B], new [B,A]: both items matched, and the live list still reads A, B.
C11_Witness ==
  \E e \in Range(LogOps("list")) :
    /\ KeysOf(e.old) = <<"A", "B">>
    /\ KeysOf(NewListItems(e.list)) = <<"B", "A">>
    /\ MatchedIds(e) = IdSet(e.old)
    /\ KeysOf(AllItems(lists[e.list])) = <<"A", "B">>
    /\ LogOps("insert") = <<>>
    /\ LogOps("remove") = <<>>

\* A mergeNodes step, for every new attribute-marked node with a live
\* counterpart (the marker keys of one fragment are distinct): afterwards the
\* live node has every attribute of the new node with the new node's value,
\* and every attribute it had that the new node lacks with the value it had.
C12_Additive ==
  calls' = calls + 1 =>
    \A i \in 1..Len(frag'.attrs) :
      LET newEl == frag'.attrs[i] IN
      newEl.key \in DOMAIN attrs =>
        LET live == attrs[newEl.key]
            after == attrs'[newEl.key]
        IN  /\ DOMAIN after = DOMAIN live \cup DOMAIN newEl.attrs
            /\ \A n \in DOMAIN newEl.attrs : after[n] = newEl.attrs[n]
            /\ \A n \in DOMAIN live \ DOMAIN newEl.attrs : after[n] = live[n]

\* A mergeNodes step that merges the fragment of the call before it once more
\* leaves every attribute as that call left it.
C12_Twice ==
  (calls' = calls + 1 /\ calls > 0 /\ frag' = frag) => attrs' = attrs

\* C12: the attribute sync copies every attribute of the new node onto its
\* live counterpart, never removes an attribute of the live node, and applied
\* twice gives what it gives applied once.
C12_AttributeSync == [][C12_Additive /\ C12_Twice]_vars

\* The same fragment was merged twice; it gave node "a1" the class "y" and
\* carries no title, and the live node still has the title it had.
C12_Witness ==
  /\ calls = 2
  /\ log = <<[op |-> "attrs", key |-> "a1"]>>
  /\ frag.attrs[1].attrs = [n \in {"class"} |-> "y"]
  /\ attrs["a1"] = [n \in AttrNames |-> IF n = "class" THEN "y" ELSE "x"]

\* C13 as claimed: all item keys present in a live list are unique, items
\* still mid-removal included.
C13_AsClaimed ==
  \A k \in DOMAIN lists : UniqueKeys(AllItems(lists[k]))

\* C13, amended: the keys of the items of a live list that are not mid-removal
\* are unique; an item still mid-removal may share its key with one of them.
C13_UniqueCurrentKeys ==
  \A k \in DOMAIN lists : \A i, j \in 1..Len(AllItems(lists[k])) :
    LET x == AllItems(lists[k])[i]
        y == AllItems(lists[k])[j]
    IN  (i # j /\ x.key = y.key) => (HasRemoveClass(x) \/ HasRemoveClass(y))

\* Key A is twice in the list: on an item mid-removal and on the item a later
\* call inserted for it.
C13_Witness ==
  \E k \in DOMAIN lists : \E i, j \in 1..Len(AllItems(lists[k])) :
    LET x == AllItems(lists[k])[i]
        y == AllItems(lists[k])[j]
    IN  /\ x.key = y.key
        /\ HasRemoveClass(x)
        /\ ~HasRemoveClass(y)
        /\ "merge-add-wrapper" \in y.cls

\* The items of snapshot e that are mid-removal once the removal pass of the
\* call is over: those an earlier call wrapped and those this call wrapped.
MidRemovalIds(e) ==
  {x.id : x \in {y \in Range(e.old) : HasRemoveClass(y)}} \cup RemovedIds(e.list)

\* No mid-removal item is updated by the call: none is the target of a
\* replacement, and while it is in the list it has the content and token it had.
C14_NeverUpdated(e) ==
  /\ \A u \in Range(LogOps("update")) : u.list = e.list => u.id \notin MidRemovalIds(e)
  /\ \A x \in Range(e.old) :
       (x.id \in MidRemovalIds(e) /\ x.id \in LiveIds(e.list)) =>
         /\ ItemById(lists[e.list], x.id).html = x.html
         /\ ItemById(lists[e.list], x.id).cache = x.cache

\* No mid-removal item is in the tracking sequence of an insertion: none is
\* counted in an insertion index and none is the anchor of a beforebegin.
C14_NeverTracked(e) ==
  \A n \in Range(LogOps("insert")) :
    n.list = e.list => Range(n.track) \cap MidRemovalIds(e) = {}

\* The keys of the items of snapshot e that were mid-removal before the call.
KeysMidRemoval(e) == {x.key : x \in {y \in Range(e.old) : HasRemoveClass(y)}}

\* C14 as claimed: a mid-removal item is never updated, never an anchor and
\* never counted, and a new item carrying its key is inserted.
C14_AsClaimed ==
  \A e \in Range(LogOps("list")) :
    reloads = 0 =>
      /\ C14_NeverUpdated(e)
      /\ C14_NeverTracked(e)
      /\ \A key \in Range(KeysOf(NewListItems(e.list))) \cap KeysMidRemoval(e) :
           key \in InsertedKeys(e.list)

\* C14, amended: as claimed, except that a new item carrying the key of a
\* mid-removal item is inserted unless an item that is not mid-removal carries
\* that key too, in which case it is not inserted.
C14_NotMistaken ==
  \A e \in Range(LogOps("list")) :
    reloads = 0 =>
      /\ C14_NeverUpdated(e)
      /\ C14_NeverTracked(e)
      /\ \A key \in Range(KeysOf(NewListItems(e.list))) \cap KeysMidRemoval(e) :
           key \in InsertedKeys(e.list)
             <=> key \notin Range(KeysOf(SelectNotRemoving(e.old)))

\* Old [A mid-removal, B, C], new [B, A, C]: the new A was inserted at index 1
\* immediately before C, with B and C alone in the tracking sequence.
C14_Witness ==
  \E n \in Range(LogOps("insert")) : \E e \in Range(LogOps("list")) :
    /\ n.list = e.list
    /\ n.i = 1
    /\ Len(n.track) = 2
    /\ n.key \in KeysMidRemoval(e)
    /\ Pos(n.dom, n.id) + 1 = Pos(n.dom, n.track[2])
    /\ n.dom[1] \in MidRemovalIds(e)

\* Some list item of fragment f comes without a key.
HasKeylessItem(f) ==
  \E i \in 1..Len(f.lists) : \E j \in 1..Len(f.lists[i].items) :
    f.lists[i].items[j].key = NoKey

\* C15 as claimed: a mergeNodes call whose fragment holds a list item without
\* key triggers a page reload.
C15_AsClaimed == (calls > 0 /\ HasKeylessItem(frag)) => reloads > 0

\* The positions of the new content (attribute) markers of f without live counterpart.
UnmatchedContent(f) == {i \in 1..Len(f.content) : f.content[i].key \notin DOMAIN content}

UnmatchedAttrs(f) == {i \in 1..Len(f.attrs) : f.attrs[i].key \notin DOMAIN attrs}

Min(S) == CHOOSE n \in S : \A m \in S : n <= m

\* Fragment f without its content and attribute markers that lack a counterpart.
MatchedOnly(f) ==
  [content |-> SelectSeq(f.content, LAMBDA el : el.key \in DOMAIN content),
   attrs |-> SelectSeq(f.attrs, LAMBDA el : el.key \in DOMAIN attrs),
   lists |-> f.lists]

\* C16 as claimed: a content or attribute marker without live counterpart is
\* ignored and the merge continues, so the call does what it would do for the
\* fragment without those markers.
C16_AsClaimed ==
  [][(calls' = calls + 1 /\ UnmatchedContent(frag') \cup UnmatchedAttrs(frag') # {}) =>
       LET rest == mergeNodes(MatchedOnly(frag')) IN
       /\ content' = rest.content
       /\ attrs' = rest.attrs
       /\ lists' = rest.lists
       /\ reloads' = reloads + CatchReloads(rest)]_vars

\* What the call wrote after the first unmatched content or attribute marker
\* of f, were it to go on: log lg shows none of it.
StopsAtUnmatched(f, lg) ==
  IF UnmatchedContent(f) # {}
  THEN \A i \in 1..Len(lg) :
         /\ lg[i].op = "content"
         /\ \E j \in 1..(Min(UnmatchedContent(f)) - 1) : f.content[j].key = lg[i].key
  ELSE \A i \in 1..Len(lg) :
         /\ lg[i].op \in {"content", "attrs"}
         /\ lg[i].op = "attrs" =>
              \E j \in 1..(Min(UnmatchedAttrs(f)) - 1) : f.attrs[j].key = lg[i].key

\* C16, amended: a content or attribute marker without live counterpart is not
\* ignored.  The call stops at it and triggers a reload: the markers before it
\* are patched, neither it nor any marker after it changes anything.  A new
\* list item that matches no current item of a list that has a live
\* counterpart is no error: it is inserted.
C16_UnmatchedIsFatal ==
  [][calls' = calls + 1 =>
       /\ UnmatchedContent(frag') \cup UnmatchedAttrs(frag') # {} =>
            /\ reloads' = reloads + 1
            /\ StopsAtUnmatched(frag', log')
            /\ lists' = lists
       /\ reloads' = reloads =>
            \A i \in 1..Len(frag'.lists) :
              \A key \in Range(KeysOf(frag'.lists[i].items)) :
                key \notin Range(KeysOf(CurrentItems(lists[frag'.lists[i].key])))
                  => \E j \in 1..Len(log') :
                       /\ log'[j].op = "insert"
                       /\ log'[j].list = frag'.lists[i].key
                       /\ log'[j].key = key]_vars

\* The fragment's first content marker, "m9", has no counterpart: the page
\* reloads and "m1", which comes after it, is not replaced.
C16_Witness ==
  /\ reloads = 1
  /\ Len(frag.content) = 2
  /\ frag.content[1].key = "m9"
  /\ frag.content[2].key = "m1"
  /\ log = <<>>
  /\ content["m1"].html # frag.content[2].html

\* The algorithm a logged write belongs to: 1 subtree replace, 2 attribute
\* sync, 3 list diff.
Algorithm(op) ==
  CASE op = "content" -> 1
    [] op = "attrs" -> 2
    [] OTHER -> 3

\* C17: within one mergeNodes call every content replacement happens before
\* any attribute sync and every attribute sync before any list removal,
\* update or insertion: the writes of the call, in the order they were made,
\* never step back from a later algorithm to an earlier one.
C17_InSequence ==
  \A i, j \in 1..Len(log) : i < j => Algorithm(log[i].op) <= Algorithm(log[j].op)

\* One call replaced content, synced attributes, started a removal and
\* inserted an item.
C17_Witness ==
  /\ LogOps("content") # <<>>
  /\ LogOps("attrs") # <<>>
  /\ LogOps("remove") # <<>>
  /\ LogOps("insert") # <<>>
  /\ reloads = 0

\* The classes of a hideAndRemove wrapper whose callback t is the next to run.
PhaseClasses(t) ==
  CASE t = 1 -> {"merge-remove-wrapper"}
    [] t = 2 -> {"merge-remove-wrapper", "merge-remove-wrapper--fade"}
    [] t = 3 -> {"merge-remove-wrapper", "merge-remove-wrapper--fade",
                 "merge-remove-wrapper--slide"}

\* Every wrapper in the document is in one of the phases wrapped, fade, slide,
\* with its height pinned: the slide class is on no wrapper without the fade
\* class, and an item carries the removal class exactly when it is wrapped.
C18_Phases ==
  \A k \in DOMAIN lists : \A s \in 1..Len(lists[k]) :
    /\ \A j \in 1..Len(lists[k][s].wr) :
         /\ lists[k][s].wr[j].t \in 1..3
         /\ lists[k][s].wr[j].cls = PhaseClasses(lists[k][s].wr[j].t)
         /\ lists[k][s].wr[j].height
    /\ lists[k][s].it # <<>> =>
         (HasRemoveClass(lists[k][s].it[1]) <=> lists[k][s].wr # <<>>)

\* A step never takes a wrapper back a phase nor over one: around an item that
\* stays, the wrappers stay as many on a timer step and each is in its phase or
\* the next one; a mergeNodes step removes no item and at most adds one new
\* wrapper, in the first phase, inside the others.
C18_InOrder ==
  \A k \in DOMAIN lists : \A i \in 1..Len(AllItems(lists[k])) :
    LET x == AllItems(lists[k])[i]
        wr == WrappersOf(lists, k, x.id)
    IN  IF calls' = calls + 1
        THEN /\ x.id \in IdSet(AllItems(lists'[k]))
             /\ WrappersOf(lists', k, x.id) \in {wr, Append(wr, NewWrapper)}
        ELSE x.id \in IdSet(AllItems(lists'[k])) =>
               LET wr2 == WrappersOf(lists', k, x.id) IN
               /\ Len(wr2) = Len(wr)
               /\ \A j \in 1..Len(wr) : wr2[j].t \in {wr[j].t, wr[j].t + 1}

\* The wrappers around item x of list k when x leaves the document in this step.
LeavingWrappers(k, i) ==
  LET x == AllItems(lists[k])[i]
  IN  IF x.id \in IdSet(AllItems(lists'[k])) THEN <<>>
      ELSE WrappersOf(lists, k, x.id)

ItemLeaves(k, i) == AllItems(lists[k])[i].id \notin IdSet(AllItems(lists'[k]))

\* Under fair timers an item that carries the removal class leaves the document.
C18_Removed ==
  \A id \in 1..MaxSlots :
    (\E i \in 1..Len(AllItems(lists["cart"])) :
       /\ AllItems(lists["cart"])[i].id = id
       /\ HasRemoveClass(AllItems(lists["cart"])[i]))
    ~> (id \notin IdSet(AllItems(lists["cart"])))

\* C18 as claimed: every item passed to hideAndRemove goes through the phases
\* wrapped, fade, slide, removed in that order, none skipped and none repeated,
\* no wrapper leaves the document before it has the slide class, and under fair
\* timers the wrapper and the item eventually leave the document.
C18_AsClaimed ==
  /\ []C18_Phases
  /\ [][/\ C18_InOrder
        /\ \A k \in DOMAIN lists : \A i \in 1..Len(AllItems(lists[k])) :
             ItemLeaves(k, i) =>
               /\ LeavingWrappers(k, i) # <<>>
               /\ \A j \in 1..Len(LeavingWrappers(k, i)) :
                    LeavingWrappers(k, i)[j].t = 3]_vars
  /\ C18_Removed

\* C18, amended: every wrapper hideAndRemove creates goes through the phases
\* wrapped, fade, slide in that order, none skipped and none repeated; the item
\* leaves the document with a wrapper that has the fade and slide classes,
\* together with any wrapper a later hideAndRemove call put inside that one,
\* whatever its phase; and under fair timers every item passed to hideAndRemove
\* eventually leaves the document.
C18_DetachPhases ==
  /\ []C18_Phases
  /\ [][/\ C18_InOrder
        /\ \A k \in DOMAIN lists : \A i \in 1..Len(AllItems(lists[k])) :
             ItemLeaves(k, i) =>
               \E j \in 1..Len(LeavingWrappers(k, i)) :
                 LeavingWrappers(k, i)[j].t = 3]_vars
  /\ C18_Removed

\* The latest call passed an item to hideAndRemove, and the item has gone
\* through the phases and left the document with everything else at rest.
C18_Witness ==
  /\ calls > 0
  /\ RemovedIds("cart") # {}
  /\ RemovedIds("cart") \cap IdSet(AllItems(lists["cart"])) = {}
  /\ Settled

\* The transient classes of an item whose insertAndReveal callback t is the
\* next to run; 0 is the item no callback is pending on.
RevealClasses(t) ==
  CASE t = 0 -> {}
    [] t = 1 -> {"merge-add-wrapper"}
    [] t = 2 -> {"merge-add-wrapper", "merge-add-wrapper--slide"}
    [] t = 3 -> AddClasses

\* The phase after t: inserted (1), slide (2), fade (3), and settled (0) after
\* the cleanup; settled is final.
NextPhase(t) == IF t = 0 THEN 0 ELSE (t + 1) % 4

\* Every item in the document is in one of the phases: its transient classes
\* are those of its phase and its height is pinned exactly until the cleanup.
C19_Phases ==
  \A k \in DOMAIN lists : \A i \in 1..Len(AllItems(lists[k])) :
    LET x == AllItems(lists[k])[i] IN
    /\ x.t \in 0..3
    /\ x.cls \cap AddClasses = RevealClasses(x.t)
    /\ x.height <=> x.t > 0

\* A timer step leaves an item of the document in its phase or takes it to the
\* next one; a mergeNodes step changes the phase of no item that was there and
\* puts every item it inserts into the first phase.
C19_InOrder ==
  \A k \in DOMAIN lists :
    /\ \A i \in 1..Len(AllItems(lists[k])) :
         LET x == AllItems(lists[k])[i] IN
         x.id \in IdSet(AllItems(lists'[k])) =>
           ItemById(lists'[k], x.id).t
             \in (IF calls' = calls + 1 THEN {x.t} ELSE {x.t, NextPhase(x.t)})
    /\ \A i \in 1..Len(AllItems(lists'[k])) :
         LET y == AllItems(lists'[k])[i] IN
         y.id \notin IdSet(AllItems(lists[k])) =>
           /\ calls' = calls + 1
           /\ y.t = 1
           /\ y.cls = {"merge-add-wrapper"}

Revealing(id) ==
  \E i \in 1..Len(AllItems(lists["cart"])) :
    AllItems(lists["cart"])[i].id = id /\ AllItems(lists["cart"])[i].t > 0

\* C19: every item passed to insertAndReveal goes through the phases inserted
\* with pinned height, slide, fade, cleanup in that order; under fair timers an
\* item in the document reaches the settled state, with no pinned height and
\* none of the three transient classes, unless a removal takes it out of the
\* document first, in which case the callbacks left on it run all the same;
\* once settled it stays settled.
C19_RevealPhases ==
  /\ []C19_Phases
  /\ [][C19_InOrder]_vars
  /\ \A id \in 1..MaxSlots : Revealing(id) ~> ~Revealing(id)
  /\ (orphans > 0) ~> (orphans = 0)

\* An item the latest call inserted has gone through the phases and is settled.
C19_Witness ==
  /\ calls > 0
  /\ \E i \in 1..Len(AllItems(lists["cart"])) :
       LET x == AllItems(lists["cart"])[i] IN
       /\ x.key \in InsertedKeys("cart")
       /\ ~HasRemoveClass(x)
       /\ x.t = 0 /\ x.cls = {} /\ ~x.height

\* A custom property is missing: its duration is not a number.
DurationMissing ==
  Milliseconds(style.fade) = NaN \/ Milliseconds(style.slide) = NaN

\* Every timer pending in the document whose timeout is a duration that is not
\* a number has been set with a timeout of zero, and is due.
C20_ZeroDelay ==
  \A k \in DOMAIN lists : \A s \in 1..Len(lists[k]) :
    /\ \A j \in 1..Len(lists[k][s].wr) :
         LET delay == DetachDelay(lists[k][s].wr[j].t) IN
         /\ delay = NaN => SetTimeout(delay) = 0
         /\ Fires(SetTimeout(delay))
    /\ \A j \in 1..Len(lists[k][s].it) :
         lists[k][s].it[j].t > 0 =>
           LET delay == RevealDelay(lists[k][s].it[j].t) IN
           /\ delay = NaN => SetTimeout(delay) = 0
           /\ Fires(SetTimeout(delay))

\* C20: when --fade-duration or --slide-duration is missing, hideAndRemove and
\* insertAndReveal raise nothing and the page is not reloaded; the detach and
\* reveal phases still occur in their order, the timers that wait for a
\* missing duration being set with a timeout of zero; and under fair timers
\* every item passed to hideAndRemove still leaves the document and every
\* inserted item still settles.
C20_MissingDuration ==
  /\ [](DurationMissing =>
          /\ reloads = 0
          /\ C20_ZeroDelay
          /\ C18_Phases
          /\ C19_Phases)
  /\ [][DurationMissing => (C18_InOrder /\ C19_InOrder)]_vars
  /\ \A id \in 1..MaxSlots :
       /\ (DurationMissing /\ Revealing(id)) ~> ~Revealing(id)
       /\ (DurationMissing /\ id \in IdSet(AllItems(lists["cart"]))
             /\ HasRemoveClass(ItemById(lists["cart"], id)))
            ~> (id \notin IdSet(AllItems(lists["cart"])))
  /\ (DurationMissing /\ ~Settled) ~> Settled

\* Both durations are missing, and the latest call's removed item has left the
\* document and its inserted item has settled, with no reload.
C20_Witness ==
  /\ style.fade = "" /\ style.slide = ""
  /\ calls > 0
  /\ reloads = 0
  /\ RemovedIds("cart") # {}
  /\ InsertedKeys("cart") # {}
  /\ RemovedIds("cart") \cap IdSet(AllItems(lists["cart"])) = {}
  /\ Settled

\* Callbacks of hideAndRemove and insertAndReveal still to run on the nodes of
\* a container: every chain in it counts the callbacks it has left.
RECURSIVE PendingIn(_)
PendingIn(slots) ==
  IF slots = <<>> THEN 0
  ELSE RemainingIn(Head(slots).wr) + RemainingInItem(Head(slots).it)
       + PendingIn(Tail(slots))

\* Callbacks still to run anywhere, in the document or on nodes that left it.
PendingCallbacks == PendingIn(lists["cart"]) + orphans

\* A step cancels no timer: a timer step runs exactly one callback and leaves
\* every other one pending; a mergeNodes step leaves every chain that was in
\* the list where it stood and only adds chains.
C21_NoneCancelled ==
  IF calls' = calls + 1
  THEN /\ PendingCallbacks' >= PendingCallbacks
       /\ \A i \in 1..Len(AllItems(lists["cart"])) :
            LET x == AllItems(lists["cart"])[i]
                wr == WrappersOf(lists, "cart", x.id)
                wr2 == WrappersOf(lists', "cart", x.id)
            IN  /\ ItemById(lists'["cart"], x.id).t = x.t
                /\ Len(wr2) >= Len(wr)
                /\ SubSeq(wr2, 1, Len(wr)) = wr
  ELSE PendingCallbacks' = PendingCallbacks - 1

\* C21: no timer set by hideAndRemove or insertAndReveal is ever cancelled;
\* whatever mergeNodes calls come later, every callback that is pending runs
\* under fair timers, and a later call only adds timers.
C21_TimersAllFire ==
  /\ [][C21_NoneCancelled]_vars
  /\ \A n \in 1..(3 * MaxSlots * (MaxWrap + 1)) :
       (PendingCallbacks = n) ~> (PendingCallbacks < n)

\* A later call has put a second set of detach timers on an item whose first
\* set was still pending, and callbacks of both sets have run since.
C21_Witness ==
  /\ calls > 1
  /\ \E s \in 1..Len(lists["cart"]) :
       /\ Len(lists["cart"][s].wr) = 2
       /\ lists["cart"][s].wr[1].t = 3
       /\ lists["cart"][s].wr[2].t = 2

\* The current items (not mid-removal) of the cart list that carry key, as ids
\* in document order.
CurrentWithKey(key) ==
  Ids(SelectSeq(SelectNotRemoving(AllItems(lists["cart"])), LAMBDA x : x.key = key))

UpdatedIds(lg) == {e.id : e \in {x \in Range(lg) : x.op = "update"}}

RemovedNow(lg) == {e.id : e \in {x \in Range(lg) : x.op = "remove"}}

\* A mergeNodes step on a list in which two or more current items carry key:
\* the page is not reloaded; when the new list has the key, the first of them
\* in document order is the one that is updated (it gets the markup of the new
\* item) and the others are left as they were, not updated and not removed;
\* when the new list has not, every one of them is passed to hideAndRemove.
C22_FirstWins(key) ==
  LET dup == CurrentWithKey(key) IN
  (calls' = calls + 1 /\ Len(dup) >= 2) =>
    /\ reloads' = reloads
    /\ IF key \in NewKeySet(frag', "cart")
       THEN /\ dup[1] \in UpdatedIds(log')
            /\ ItemById(lists'["cart"], dup[1]).html = NewHtml
            /\ \A j \in 2..Len(dup) :
                 /\ dup[j] \notin UpdatedIds(log') \cup RemovedNow(log')
                 /\ ItemById(lists'["cart"], dup[j]) = ItemById(lists["cart"], dup[j])
                 /\ WrappersOf(lists', "cart", dup[j]) = WrappersOf(lists, "cart", dup[j])
       ELSE \A j \in 1..Len(dup) :
              /\ dup[j] \in RemovedNow(log')
              /\ dup[j] \notin UpdatedIds(log')
              /\ HasRemoveClass(ItemById(lists'["cart"], dup[j]))
              /\ WrappersOf(lists', "cart", dup[j])
                   = Append(WrappersOf(lists, "cart", dup[j]), NewWrapper)

\* C22: when two current live items of one list share a key, mergeNodes does
\* not fail or reload and the match is deterministic: the first in document
\* order is updated and the other left untouched if the new list has the key,
\* and both are removed if it has not.
C22_Deterministic == [][\A key \in DupKeys : C22_FirstWins(key)]_vars

\* The latest call met two current items with key A and a new item with key A:
\* the first has the new markup, the second still has the one it was rendered with.
C22_Witness ==
  /\ calls > 0
  /\ reloads = 0
  /\ "A" \in NewKeySet(frag, "cart")
  /\ Len(CurrentWithKey("A")) >= 2
  /\ ItemById(lists["cart"], CurrentWithKey("A")[1]).html = NewHtml
  /\ ItemById(lists["cart"], CurrentWithKey("A")[2]).html = ItemHtml

\* C23: after a mergeNodes call that did not fail, the keys of the live items
\* of a merged list that are not mid-removal are exactly the keys of the new
\* list, and stay so while the timers run.
C23_KeySets ==
  (calls > 0 /\ reloads = 0) =>
    \A e \in Range(LogOps("list")) :
      Range(KeysOf(SelectNotRemoving(AllItems(lists[e.list]))))
        = Range(KeysOf(NewListItems(e.list)))

\* The latest call removed a key, kept a key and inserted a key, and the item
\* of the removed key is still in the document, mid-removal.
C23_Witness ==
  /\ calls > 0
  /\ reloads = 0
  /\ InsertedKeys("cart") # {}
  /\ RemovedIds("cart") \cap IdSet(AllItems(lists["cart"])) # {}
  /\ \E i \in 1..Len(AllItems(lists["cart"])) :
       LET x == AllItems(lists["cart"])[i] IN
       /\ ~HasRemoveClass(x)
       /\ x.key \notin InsertedKeys("cart")

\* The children of a list without the items that are mid-removal, their
\* wrappers included, and without the items whose key is not among newKeys.
PostRemoval(slots, newKeys) ==
  SelectSeq(slots, LAMBDA sl : /\ sl.it # <<>>
                               /\ ~HasRemoveClass(sl.it[1])
                               /\ sl.it[1].key \in newKeys)

\* The keys, in document order, of the items of slots that are not mid-removal.
CurrentKeys(slots) ==
  KeysOf(SelectSeq(AllItems(slots), LAMBDA x : ~HasRemoveClass(x)))

\* The cart list after the try block has merged newContent into ls.
MergedInto(ls, newContent) ==
  TryBlock([content |-> content, attrs |-> attrs, lists |-> ls,
            log |-> <<>>, ex |-> FALSE], newContent).lists["cart"]

\* C24: insertion placement is computed against the post-removal list only:
\* the order of the live items that are not mid-removal after a merge is the
\* order obtained by merging the same new list into the old list with the
\* removed items deleted beforehand.
C24_PostRemovalOrder ==
  [][(calls' = calls + 1 /\ reloads' = reloads) =>
       CurrentKeys(lists'["cart"])
         = CurrentKeys(MergedInto(
             [lists EXCEPT !["cart"] = PostRemoval(@, NewKeySet(frag', "cart"))],
             frag'))]_vars

\* The latest call removed the first item of the list and inserted a new item
\* behind an item it kept: the removed item is still in the document, before
\* both.
C24_Witness ==
  /\ calls > 0
  /\ reloads = 0
  /\ Len(AllItems(lists["cart"])) >= 3
  /\ AllItems(lists["cart"])[1].id \in RemovedIds("cart")
  /\ \E i, j \in 2..Len(AllItems(lists["cart"])) :
       /\ i < j
       /\ ~HasRemoveClass(AllItems(lists["cart"])[i])
       /\ AllItems(lists["cart"])[i].key \notin InsertedKeys("cart")
       /\ AllItems(lists["cart"])[j].key \in InsertedKeys("cart")
       /\ AllItems(lists["cart"])[j].t > 0

MarkerKeys(els) == {els[i].key : i \in 1..Len(els)}

C26_AsClaimed ==
  \A i, j \in 1..Len(triggered) :
    i < j => triggered[j] - triggered[i] >= Wait

\* The element ids, in document order, of the items of slots that are not
\* mid-removal.
CurrentIds(slots) == Ids(SelectSeq(AllItems(slots), LAMBDA x : ~HasRemoveClass(x)))

\* For the insertion e of a mergeNodes step: when the item is inserted the
\* tracking sequence is the document order of the items that are not
\* mid-removal, index i is a position of it, and at the end of the pass the
\* item is the one at position i (0-based) of that order.
C27_InStep(e) ==
  LET current == CurrentIds(lists'[e.list])
      before == Restrict(e.dom, Range(current) \ {e.id})
  IN  /\ e.track = before
      /\ e.i <= Len(e.track)
      /\ Restrict(e.dom, Range(current))
           = SubSeq(e.track, 1, e.i) \o <<e.id>> \o SubSeq(e.track, e.i + 1, Len(e.track))
      /\ current[e.i + 1] = e.id

\* C27: at every step of the insertion pass of mergeNodes, for new lists with
\* unique keys, the tracking sequence of current items is the document-order
\* sequence of the live items that are not mid-removal, and each item inserted
\* for new index i sits at position i of that sequence at the end of the pass.
C27_TrackingInSync ==
  [][(calls' = calls + 1 /\ reloads' = reloads) =>
       \A i \in 1..Len(log') : log'[i].op = "insert" => C27_InStep(log'[i])]_vars

\* The latest call inserted an item between two items it kept, while an item
\* it removed is still in the document.
C27_Witness ==
  /\ calls > 0
  /\ reloads = 0
  /\ \E i \in 1..Len(log) :
       /\ log[i].op = "insert"
       /\ log[i].i > 0
       /\ log[i].i < Len(log[i].track)
  /\ RemovedIds("cart") \cap IdSet(AllItems(lists["cart"])) # {}

\* The positions, in processing order (content, attribute, list markers), of
\* the markers of f that have no live counterpart.
UnmatchedMarkers(f) ==
  {i \in 1..Len(f.content) : f.content[i].key \notin DOMAIN content}
    \cup {Len(f.content) + i : i \in {j \in 1..Len(f.attrs) : f.attrs[j].key \notin DOMAIN attrs}}
    \cup {Len(f.content) + Len(f.attrs) + i :
            i \in {j \in 1..Len(f.lists) : f.lists[j].key \notin DOMAIN lists}}

\* The positions of the markers of f that the logged write e can come from.
MarkersOf(f, e) ==
  CASE e.op = "content" -> {i \in 1..Len(f.content) : f.content[i].key = e.key}
    [] e.op = "attrs" ->
         {Len(f.content) + i : i \in {j \in 1..Len(f.attrs) : f.attrs[j].key = e.key}}
    [] OTHER ->
         {Len(f.content) + Len(f.attrs) + i :
            i \in {j \in 1..Len(f.lists) : f.lists[j].key = e.list}}

\* After the first lookup failure nothing is patched: every write of the call
\* comes from a marker that precedes the first marker without counterpart.
C28_NothingAfterFailure ==
  (calls' = calls + 1 /\ UnmatchedMarkers(frag') # {}) =>
    /\ reloads' = reloads + 1
    /\ \A i \in 1..Len(log') :
         \E p \in MarkersOf(frag', log'[i]) : p < Min(UnmatchedMarkers(frag'))

AllItemsHaveElement(f) ==
  \A i \in 1..Len(f.lists) : \A j \in 1..Len(f.lists[i].items) :
    HasElementChild(f.lists[i].items[j].html)

\* C28 as claimed: an exception aborts the rest of the merge, so that nothing
\* is patched after the first lookup failure, and a call in which every new
\* marker has a live counterpart never triggers a reload.
C28_AsClaimed ==
  [][/\ C28_NothingAfterFailure
     /\ (calls' = calls + 1 /\ UnmatchedMarkers(frag') = {}) => reloads' = reloads]_vars

\* C28, amended: nothing is patched after the first lookup failure, and a call
\* in which every new marker has a live counterpart and every new list item
\* has an element child never triggers a reload.
C28_AbortsRest ==
  [][/\ C28_NothingAfterFailure
     /\ (calls' = calls + 1 /\ UnmatchedMarkers(frag') = {} /\ AllItemsHaveElement(frag'))
          => reloads' = reloads]_vars

\* The second attribute marker of the fragment had no counterpart: the page
\* reloads, the first one is synced and the list the fragment brings is not
\* merged.
C28_Witness ==
  /\ reloads = 1
  /\ Len(frag.attrs) = 2
  /\ frag.attrs[2].key \notin DOMAIN attrs
  /\ attrs["a1"] = frag.attrs[1].attrs
  /\ \E i \in 1..Len(frag.lists) : frag.lists[i].key \in DOMAIN lists
  /\ LogOps("list") = <<>>

\* C29 as claimed: an item that is mid-removal is never given a second detach
\* sequence, so that no item is ever inside more than one merge-remove-wrapper.
C29_AsClaimed ==
  \A k \in DOMAIN lists : \A s \in 1..Len(lists[k]) : Len(lists[k][s].wr) <= 1

\* A mergeNodes step, for every item of a merged list that was mid-removal
\* before it: the call starts one more detach sequence on the item when the
\* new list lacks its key, and none when the new list has it.
C29_Layered ==
  calls' = calls + 1 =>
    \A k \in {e.list : e \in {x \in Range(log') : x.op = "list"}} :
      \A i \in 1..Len(AllItems(lists[k])) :
        LET x == AllItems(lists[k])[i] IN
        HasRemoveClass(x) =>
          WrappersOf(lists', k, x.id) =
            (IF x.key \in NewKeySet(frag', k)
             THEN WrappersOf(lists, k, x.id)
             ELSE Append(WrappersOf(lists, k, x.id), NewWrapper))

\* C29, amended: an item that is mid-removal is given a further detach sequence
\* by every later mergeNodes call whose new list lacks its key, and by no
\* other; it is inside at most as many wrappers as calls have been made.
C29_OnePerCall ==
  /\ [][C29_Layered]_vars
  /\ [](\A k \in DOMAIN lists : \A s \in 1..Len(lists[k]) : Len(lists[k][s].wr) <= calls)

\* Two calls have each started a detach sequence on the same item.
C29_Witness ==
  /\ calls = 2
  /\ \E s \in 1..Len(lists["cart"]) :
       /\ lists["cart"][s].it # <<>>
       /\ HasRemoveClass(lists["cart"][s].it[1])
       /\ Len(lists["cart"][s].wr) = 2
       /\ lists["cart"][s].wr[2] = NewWrapper

\* C30 as claimed: whenever a live list item carries a token, its inner content
\* is the content that was delivered together with that token; it never holds
\* the content of one merge together with the token of an earlier one.
C30_AsClaimed ==
  \A i \in 1..Len(AllItems(lists["cart"])) :
    LET x == AllItems(lists["cart"])[i] IN
    x.cache # Undefined => x.html = DeliveredWith(x.cache)

\* The items of the cart list that are not mid-removal.
NotMidRemoval(ls) == SelectSeq(AllItems(ls["cart"]), LAMBDA x : ~HasRemoveClass(x))

\* The new items of fragment f for the cart list that are not the first of
\* their key in it.
RepeatedNew(f) ==
  {i \in 1..Len(f.lists[1].items) :
     \E j \in 1..(i - 1) : f.lists[1].items[j].key = f.lists[1].items[i].key}

\* C31: if the live items that are not mid-removal have pairwise distinct keys
\* before a mergeNodes call, they have pairwise distinct keys after it,
\* whatever the new list, also one that repeats a key: the repeated new item
\* is not inserted again, it updates the item that carries its key.
C31_KeysStayDistinct ==
  [][(calls' = calls + 1 /\ UniqueKeys(NotMidRemoval(lists))) =>
       /\ UniqueKeys(NotMidRemoval(lists'))
       /\ \A i \in RepeatedNew(frag') :
            LET key == frag'.lists[1].items[i].key IN
            /\ Cardinality({j \in 1..Len(log') :
                              log'[j].op = "insert" /\ log'[j].key = key}) <= 1
            /\ \E j \in 1..Len(log') : log'[j].op = "update" /\ log'[j].key = key]_vars

\* The latest call brought key A twice for a list that had no A: one item was
\* inserted for the first and updated for the second.
C31_Witness ==
  /\ calls > 0
  /\ KeysOf(NewListItems("cart")) = <<"A", "A">>
  /\ \E i, j \in 1..Len(log) :
       /\ i < j
       /\ log[i].op = "insert" /\ log[i].key = "A"
       /\ log[j].op = "update" /\ log[j].id = log[i].id
  /\ UniqueKeys(NotMidRemoval(lists))

\* What the items of the cart list that are not mid-removal are, leaving aside
\* what the reveal timers change: element, key, markup and token, in order.
CurrentLeft(ls) ==
  LET items == NotMidRemoval(ls)
  IN  [i \in 1..Len(items) |->
         [id |-> items[i].id, key |-> items[i].key,
          html |-> items[i].html, cache |-> items[i].cache]]

\* The list holds nothing transient: no merge-remove-wrapper, no item with the
\* merge-remove-item class, with a merge-add-wrapper class or with a pinned
\* height.
Quiescent ==
  \A s \in 1..Len(lists["cart"]) :
    /\ lists["cart"][s].wr = <<>>
    /\ \A j \in 1..Len(lists["cart"][s].it) :
         LET x == lists["cart"][s].it[j] IN
         /\ RemoveItemClass \notin x.cls
         /\ x.cls \cap AddClasses = {}
         /\ ~x.height

\* C32: after finitely many mergeNodes calls every pending timer fires, and
\* once none is pending the list is quiescent; no timer changes which items
\* are current nor their order, so the items of the quiescent list are the
\* current items the last merge left, in the same order.
C32_Quiescence ==
  /\ []((reloads = 0 /\ PendingCallbacks = 0) => Quiescent)
  /\ [][calls' = calls => CurrentLeft(lists') = CurrentLeft(lists)]_vars
  /\ []<>(PendingCallbacks = 0)

\* The last call removed an item and inserted one, every timer has fired and
\* the list holds exactly the items of the new list.
C32_Witness ==
  /\ calls = MaxCalls
  /\ RemovedIds("cart") # {}
  /\ InsertedKeys("cart") # {}
  /\ PendingCallbacks = 0
  /\ Quiescent
  /\ KeysOf(AllItems(lists["cart"])) = KeysOf(NewListItems("cart"))

(***************************************************************************)
(* CartForm, lines 914-1043: the custom element that owns the list "cart". *)
(* refresh (947-959) fetches the section and hands the response to         *)
(* refreshFromHtml (961-983), the caller of theme.mergeNodes;              *)
(* adjustItemQuantity (985-1043) debounces the quantity changes of the     *)
(* user into one post to the cart update route.  A fetch is in flight      *)
(* from the step that issues it to the step that runs its then/catch.      *)
(***************************************************************************)
RefreshingClass == "cart-form--refreshing"

ItemRefreshingClass == "merge-item-refreshing"

\* An attribute that the markup does not set reads as the empty string.
Absent == <<>>

\* The step and max attributes of the quantity inputs: none, or step="1" max="2".
InputAttributes == {[step |-> Absent, max |-> Absent], [step |-> Num(1), max |-> Num(2)]}

\* input.cart-item__quantity-input as rendered: data-initial-value is its value.
QuantityInput(value, step, max) ==
  [value |-> value, initialValue |-> value, step |-> step, max |-> max]

\* The input of a line as a section renders it after an update.
NewInputs == {QuantityInput(2, a.step, a.max) : a \in InputAttributes}

\* What the click and change listeners of lines 920-937 pass as change;
\* n is the value typed before a change event, and the 0 of { to: 0 }.
Changes ==
  {[kind |-> k, n |-> 0] : k \in {"to", "increase", "decrease"}}
    \cup {[kind |-> "currentValue", n |-> w] : w \in {0, 2}}

\* The adjustItemQuantity calls of one behaviour.
MaxAdjust == 2

\* The sections fetched in one behaviour.
MaxRefresh == 1

\* number + string: the step is appended to the digits of the quantity.
Concat(v, d) == IF v < 0 THEN v * 10 - d ELSE v * 10 + d

\* Lines 990-999: newQuantity, a number or (after + with a step attribute) a string.
NewQuantity(v, step, change) ==
  CASE change.kind = "to" -> [type |-> "number", n |-> change.n]
    [] change.kind = "increase" ->
         IF step = Absent THEN [type |-> "number", n |-> v + 1]
         ELSE [type |-> "string", n |-> Concat(v, step[1])]
    [] change.kind = "decrease" ->
         [type |-> "number", n |-> v - (IF step = Absent THEN 1 ELSE step[1])]
    [] OTHER -> [type |-> "number", n |-> v]

\* Lines 1001-1005: a quantity above the max attribute is replaced by it.
AboveMax(q, max) == max # Absent /\ q.n > max[1]

ClampToMax(q, max) == IF AboveMax(q, max) THEN [type |-> "string", n |-> max[1]] ELSE q

\* Line 1042: newQuantity === 0 ? 10 : 700
UpdateDelay(q) == IF q.type = "number" /\ q.n = 0 THEN 10 ELSE 700

\* Mutant: the timer set by the previous call is left pending.
ClearTimeoutForgotten(pending, id) == pending

\* Line 1006: clearTimeout of a timer that has run, or of undefined, does nothing.
ClearTimeoutById(pending, id) == {t \in pending : t.id # id}

\* Lines 985-1007 and 1042: the input takes the new quantity, the pending
\* timer is cleared and a new one is set.  A change event comes from an input
\* the user could type into, a click from any item still in the document.
AdjustItemQuantity(id, change) ==
  /\ reloads = 0
  /\ adjustItemQuantityTimeout < MaxAdjust
  /\ id \in IdSet(AllItems(lists["cart"]))
  /\ change.kind = "currentValue" => ~ItemById(lists["cart"], id).disabled
  /\ LET quantityInput == inputs[id]
         value == IF change.kind = "currentValue" THEN change.n ELSE quantityInput.value
         newQuantity == ClampToMax(NewQuantity(value, quantityInput.step, change),
                                   quantityInput.max)
     IN  /\ inputs' = [inputs EXCEPT ![id].value = newQuantity.n]
         /\ quantityTimers' =
              ClearTimeoutById(quantityTimers, adjustItemQuantityTimeout)
                \cup {[id |-> adjustItemQuantityTimeout + 1,
                       delay |-> UpdateDelay(newQuantity)]}
  /\ adjustItemQuantityTimeout' = adjustItemQuantityTimeout + 1
  /\ UNCHANGED <<mergeVars, throttleVars, classList, requests, events, fetches>>

\* Lines 1008-1010: updates[el.dataset.key] = el.value for every quantity input
\* that is not disabled, in document order; data-key is the key of the line.
RECURSIVE UpdateParamOver(_, _, _)
UpdateParamOver(items, inp, updates) ==
  IF items = <<>> THEN updates
  ELSE LET el == Head(items)
           next == IF el.disabled THEN updates
                   ELSE [k \in DOMAIN updates \cup {el.key} |->
                           IF k = el.key THEN inp[el.id].value ELSE updates[k]]
       IN  UpdateParamOver(Tail(items), inp, next)

UpdateParam(ls, inp) == UpdateParamOver(AllItems(ls["cart"]), inp, <<>>)

\* Lines 1011-1013 and 972 act on the class list of the items they select:
\* cls gives, by element id, the classes an item is left with.
WithItemClasses(ls, cls) ==
  [k \in DOMAIN ls |->
     [s \in 1..Len(ls[k]) |->
        IF ls[k][s].it = <<>> THEN ls[k][s]
        ELSE [ls[k][s] EXCEPT !.it[1].cls = cls[ls[k][s].it[1].id]]]]

ItemsOf(ls) == UNION {Range(AllItems(ls[k])) : k \in DOMAIN ls}

ItemIn(ls, id) == CHOOSE el \in ItemsOf(ls) : el.id = id

\* Lines 1011-1013: an enabled input whose value has changed marks its item.
MarkRefreshing(ls, inp) ==
  WithItemClasses(ls, [id \in UsedIds(ls) |->
    LET el == ItemIn(ls, id) IN
    IF ~el.disabled /\ inp[id].value # inp[id].initialValue
    THEN el.cls \cup {ItemRefreshingClass} ELSE el.cls])

\* Line 972
StripRefreshing(ls) ==
  WithItemClasses(ls, [id \in UsedIds(ls) |-> ItemIn(ls, id).cls \ {ItemRefreshingClass}])

\* Lines 1007-1021: the timer runs, builds the body and posts it.
UpdateTimer(t) ==
  /\ reloads = 0
  /\ t \in quantityTimers
  /\ quantityTimers' = quantityTimers \ {t}
  /\ requests' = Append(requests, UpdateParam(lists, inputs))
  /\ lists' = MarkRefreshing(lists, inputs)
  /\ fetches' = [fetches EXCEPT !.update = @ + 1]
  /\ UNCHANGED <<content, attrs, orphans, reloads, frag, log, calls, style, throttleVars,
                 classList, inputs, adjustItemQuantityTimeout, events>>

\* Lines 947-949: the class is added and the section is fetched.
refresh ==
  /\ classList' = classList \cup {RefreshingClass}
  /\ fetches' = [fetches EXCEPT !.section = @ + 1]

\* Lines 1022-1040: the answer to the post.  on:cart:change reaches the
\* listener of line 919 within dispatchEvent; a failure reloads the page.
UpdateResponse(ok) ==
  /\ reloads = 0
  /\ fetches.update > 0
  /\ IF ok
     THEN /\ events' = Append(events, "on:cart:change")
          /\ classList' = classList \cup {RefreshingClass}
          /\ fetches' = [update |-> fetches.update - 1, section |-> fetches.section + 1]
          /\ UNCHANGED reloads
     ELSE /\ events' = Append(events, "on:cart:error")
          /\ reloads' = reloads + 1
          /\ fetches' = [fetches EXCEPT !.update = @ - 1]
          /\ UNCHANGED classList
  /\ UNCHANGED <<content, attrs, lists, orphans, frag, log, calls, style, throttleVars,
                 inputs, adjustItemQuantityTimeout, quantityTimers, requests>>

\* Line 919: another component dispatches on:cart:change on the document.
CartChange ==
  /\ reloads = 0
  /\ calls + fetches.section < MaxRefresh
  /\ refresh
  /\ UNCHANGED <<mergeVars, throttleVars, inputs, adjustItemQuantityTimeout,
                 quantityTimers, requests, events>>

\* Lines 950-954: the section fetch fails and the promise chain ends there.
SectionFailure ==
  /\ reloads = 0
  /\ fetches.section > 0
  /\ fetches' = [fetches EXCEPT !.section = @ - 1]
  /\ UNCHANGED <<mergeVars, throttleVars, classList, inputs, adjustItemQuantityTimeout,
                 quantityTimers, requests, events>>

\* Mutant: an exception of the merge leaves mergeNodes.
MergeNodesRethrows(st) == ~st.ex

\* Lines 168 and 239: the try block spans the body, the catch takes every exception.
MergeNodesReturns(st) == TRUE

\* The inputs of the items in the document after the merge: an item whose
\* markup was written (lines 216 and 225-233) has the input of the new markup.
InputsAfter(inp, st, newInput) ==
  LET written == {st.log[i].id : i \in {j \in 1..Len(st.log) : st.log[j].op \in {"update", "insert"}}}
  IN  [id \in UsedIds(st.lists) |-> IF id \in written \/ id \notin DOMAIN inp THEN newInput ELSE inp[id]]

\* Lines 955-957 and 961-982: the section arrives and is merged; then the
\* classes go and the events are dispatched.  openDrawer is the condition of
\* line 977.
RefreshFromHtml(newContent, newInput, openDrawer) ==
  /\ reloads = 0
  /\ fetches.section > 0
  /\ fetches' = [fetches EXCEPT !.section = @ - 1]
  /\ calls' = calls + 1
  /\ LET st == mergeNodes(newContent) IN
       /\ WithinBounds(st.lists)
       /\ content' = st.content
       /\ attrs' = st.attrs
       /\ log' = st.log
       /\ reloads' = reloads + CatchReloads(st)
       /\ inputs' = InputsAfter(inputs, st, newInput)
       /\ IF MergeNodesReturns(st)
          THEN /\ lists' = StripRefreshing(st.lists)
               /\ classList' = classList \ {RefreshingClass}
               /\ events' = events \o <<"on:cart:after-merge">>
                              \o (IF openDrawer THEN <<"theme:open-cart-drawer">> ELSE <<>>)
          ELSE /\ lists' = st.lists
               /\ UNCHANGED <<classList, events>>
  /\ frag' = newContent
  /\ UNCHANGED <<orphans, style, throttleVars, adjustItemQuantityTimeout, quantityTimers,
                 requests>>

(***************************************************************************)
(* SpecCart: a cart-form with one or two lines, the user adjusting         *)
(* quantities while sections arrive and removals animate.  With            *)
(* MaxRefresh merges of a server-rendered list no wrapper is nested and no *)
(* revealed item is removed, so no callback is left on a detached node.    *)
(***************************************************************************)
CartKeys == {KeyNames[i] : i \in 1..(NumKeys - 2)}

CartFrags ==
  {[content |-> <<>>, attrs |-> <<>>,
    lists |-> <<[key |-> "cart",
                 items |-> [i \in 1..Len(q) |-> NewItem(q[i], h, Undefined)]]>>] :
     q \in UNION {UniqueSeqs(CartKeys, n) : n \in 0..(MaxLen - 1)}, h \in {NewHtml}}
    \cup {[content |-> <<>>, attrs |-> <<>>,
            lists |-> <<[key |-> "cart", items |-> <<NewItem("C", "text", Undefined)>>]>>]}

InitCart ==
  /\ content = <<>>
  /\ attrs = <<>>
  /\ \E n \in 1..(MaxLen - 1) :
       /\ lists = [k \in {"cart"} |->
                     [i \in 1..n |-> PlainSlot(PlainItem(i, KeyNames[i], ItemHtml, Undefined))]]
       /\ \E a \in InputAttributes :
            inputs = [i \in 1..n |-> QuantityInput(1, a.step, a.max)]
  /\ orphans = 0
  /\ reloads = 0
  /\ frag = EmptyFrag
  /\ log = <<>>
  /\ calls = 0
  /\ style = ThemeStyle
  /\ ThrottleIdle
  /\ classList = {}
  /\ adjustItemQuantityTimeout = 0
  /\ quantityTimers = {}
  /\ requests = <<>>
  /\ events = <<>>
  /\ fetches = [update |-> 0, section |-> 0]

NextCart ==
  \/ \E id \in 1..MaxSlots : \E change \in Changes : AdjustItemQuantity(id, change)
  \/ \E t \in quantityTimers : UpdateTimer(t)
  \/ \E ok \in BOOLEAN : UpdateResponse(ok)
  \/ CartChange
  \/ SectionFailure
  \/ calls < MaxRefresh /\ \E f \in CartFrags : \E newInput \in NewInputs :
       \E openDrawer \in BOOLEAN : RefreshFromHtml(f, newInput, openDrawer)
  \/ ListTimers

SpecCart == InitCart /\ [][NextCart]_vars

(***************************************************************************)
(* C33-C35: the cart-form around the merge.                                *)
(***************************************************************************)
AfterMergeCount(ev) == Cardinality({i \in 1..Len(ev) : ev[i] = "on:cart:after-merge"})

\* C33: refreshFromHtml removes cart-form--refreshing from the form and
\* merge-item-refreshing from every item and dispatches on:cart:after-merge
\* exactly once after every mergeNodes call, also after a call that failed and
\* reloaded; the event is dispatched in no step without a merge, so never
\* before mergeNodes has returned.
C33_AfterEveryMerge ==
  /\ [](AfterMergeCount(events) = calls)
  /\ [][calls' = calls + 1 =>
          /\ RefreshingClass \notin classList'
          /\ \A el \in ItemsOf(lists') : ItemRefreshingClass \notin el.cls
          /\ AfterMergeCount(events') = AfterMergeCount(events) + 1]_vars
  /\ [][AfterMergeCount(events') # AfterMergeCount(events) => calls' = calls + 1]_vars

\* A quantity was posted, the answer refreshed the form, and the merge of the
\* section failed and reloaded: the event has been dispatched all the same.
C33_Witness ==
  /\ calls = 1
  /\ reloads = 1
  /\ Len(requests) = 1
  /\ events = <<"on:cart:change", "on:cart:after-merge">>
  /\ RefreshingClass \notin classList

C35_OnePendingTimer ==
  /\ [](Cardinality(quantityTimers) <= 1)
  /\ [](Len(requests) + Cardinality(quantityTimers) <= adjustItemQuantityTimeout)
  /\ [][adjustItemQuantityTimeout' # adjustItemQuantityTimeout =>
          {t.id : t \in quantityTimers'} = {adjustItemQuantityTimeout'}]_vars
  /\ [][requests' # requests =>
          /\ Len(requests') = Len(requests) + 1
          /\ {t.id : t \in quantityTimers} = {adjustItemQuantityTimeout}
          /\ quantityTimers' = {}
          /\ DOMAIN requests'[Len(requests')] =
               {el.key : el \in {x \in ItemsOf(lists) : ~x.disabled}}
          /\ \A el \in ItemsOf(lists) :
               ~el.disabled => requests'[Len(requests')][el.key] = inputs[el.id].value]_vars

\* Two adjustments in a burst, then the timer: one body, with a changed value.
C35_Witness ==
  /\ adjustItemQuantityTimeout = 2
  /\ Len(requests) = 1
  /\ quantityTimers = {}
  /\ \E k \in DOMAIN requests[1] : requests[1][k] \notin {1, 2}

====
